---- MODULE Spec2Model ----
(***************************************************************************)
(* hornet-flow orchestration core: the event dispatcher, the manifest      *)
(* processor with its plugin life cycle, and the run_workflow sequence.     *)
(*                                                                         *)
(* One caller drives one of three entry points (entry): the dispatcher     *)
(* alone (register / trigger), a ManifestProcessor alone (process_manifest *)
(* calls on one processor object), or run_workflow.                        *)
(*                                                                         *)
(* The services run_workflow and its callers build on have specifications  *)
(* of their own: manifest discovery (SpecFind), the component walk         *)
(* (SpecWalk), the metadata watcher (SpecWatch) and the AsyncBridge        *)
(* (SpecBridge).                                                           *)
(***************************************************************************)
EXTENDS Integers, Sequences, FiniteSets, TLC

\* ---------------------------------------------------------------- bounds
MaxComponents == 2
MaxFiles == 2
MaxCalls == 2
MaxRegistrations == 2
MaxTriggers == 2
MaxNodes == 3
MaxBatches == 2
MaxChanges == 2
MaxSize == 2
MaxWaiters == 3

\* longest file reference, in characters
MaxRefLen == 4

\* ------------------------------------------------------------- constants
None == "None"

Events == {"workflow_started", "repository_ready", "manifests_ready", "workflow_completed"}

Handlers == {"h1", "h2"}

KwargBags == {"kw1", "kw2"}

\* names under which discover_plugins finds a plugin class
PluginRegistry == {"debug", "osparc"}

PluginNames == {None, "debug", "bogus"}

ComponentTypes == {"assembly", "part"}

ComponentIds == {"Asm", "b"}

TypeFilters == {None, "assembly", "part"}

NameFilters == {None, "a"}

\* ----------------------------------------------------------------- state
VARIABLES
    entry, pc, exc, result, log,
    \* EventDispatcher
    callbacks, trig,
    \* ManifestProcessor and the frame of process_manifest
    plugin_name, plugin_instance, frame, pm_ret, instances, pm_calls,
    \* run_workflow arguments and locals, _process_manifests locals
    wf, repo_url, repo_commit, repo_path, release,
    success_count, total_count, workflow_succeeded, workflow_exception,
    cad_manifest, sim_manifest, validation_errors, temp_dir, completed_kwargs,
    \* find_hornet_manifests: the repository it looks at and what it returned
    disc,
    \* walk_manifest_components: the generator's frames and what it yielded
    walk,
    \* watch_for_metadata
    watch,
    \* AsyncBridge and the threads in wait_for_app_ready_sync
    bridge,
    \* resolve_component_file_path: its arguments and the path it returned
    resolver,
    \* a call of WorkflowAPI.run, CadAPI.load or ManifestAPI.process
    api

edVars == <<callbacks, trig>>

pmVars == <<plugin_name, plugin_instance, frame, pm_ret, instances, pm_calls>>

wfVars == <<wf, repo_url, repo_commit, repo_path, release, success_count, total_count,
            workflow_succeeded, workflow_exception, cad_manifest, sim_manifest,
            validation_errors, temp_dir, completed_kwargs>>

svcVars == <<disc, walk, watch, bridge, resolver, api>>

vars == <<entry, pc, exc, result, log, edVars, pmVars, wfVars, svcVars>>

\* ------------------------------------------------------------ log entries
\* the calls the program makes on its collaborators, in order
Ev(op, ev, h, kw, inst) == [op |-> op, ev |-> ev, h |-> h, kw |-> kw, inst |-> inst]

Step(op) == Ev(op, None, None, None, 0)

\* self.logger.error(msg, ...) of the processor
LoggerError(msg) == Ev("logger.error", None, None, msg, 0)

\* n calls of self.logger.error with the same message
LoggedErrors(n, msg) == [i \in 1..n |-> LoggerError(msg)]

RECURSIVE SelectOp(_, _)
SelectOp(s, ops) ==
    IF s = <<>> THEN <<>>
    ELSE IF Head(s).op \in ops THEN <<Head(s)>> \o SelectOp(Tail(s), ops)
    ELSE SelectOp(Tail(s), ops)

Count(s, ops) == Len(SelectOp(s, ops))

\* position of the first / last entry with one of the ops, 0 when there is none
FirstPos(s, ops) ==
    IF \E i \in 1..Len(s) : s[i].op \in ops
    THEN CHOOSE i \in 1..Len(s) : s[i].op \in ops /\ \A j \in 1..(i - 1) : s[j].op \notin ops
    ELSE 0

LastPos(s, ops) ==
    IF \E i \in 1..Len(s) : s[i].op \in ops
    THEN CHOOSE i \in 1..Len(s) : s[i].op \in ops /\ \A j \in (i + 1)..Len(s) : s[j].op \notin ops
    ELSE 0

\* ------------------------------------------------------- EventDispatcher
\* EventDispatcher.__init__: no callbacks for any event
EmptyCallbacks == [e \in Events |-> <<>>]

NoTrigger == [event |-> None, kwargs |-> None, idx |-> 0, ret |-> None, raised |-> 0]

Registrations == Len(callbacks["workflow_started"]) + Len(callbacks["repository_ready"])
                 + Len(callbacks["manifests_ready"]) + Len(callbacks["workflow_completed"])

\* EventDispatcher.register
Register(e, h) ==
    /\ entry = "dispatcher"
    /\ pc = "idle"
    /\ Registrations < MaxRegistrations
    /\ callbacks' = [callbacks EXCEPT ![e] = Append(@, h)]
    /\ UNCHANGED <<entry, svcVars, pc, exc, result, log, trig, pmVars, wfVars>>

\* entering EventDispatcher.trigger(event, **kwargs); ret is where the caller goes on
EnterTrigger(e, kw, ret) ==
    /\ trig' = [event |-> e, kwargs |-> kw, idx |-> 1, ret |-> ret, raised |-> 0]
    /\ pc' = "trigger"
    /\ log' = Append(log, Ev("trigger", e, None, kw, 0))

\* `if event_dispatcher: event_dispatcher.trigger(...)` of the workflow
MaybeTrigger(e, ret) ==
    IF wf.event_dispatcher
    THEN EnterTrigger(e, e, ret)
    ELSE /\ pc' = ret
         /\ UNCHANGED <<trig, log>>

\* AfterCallback without the try/except: the exception of a callback leaves trigger
AfterCallback_Propagates(outcome) ==
    IF outcome = "raise"
    THEN /\ trig' = NoTrigger
         /\ pc' = trig.ret
         /\ exc' = "callback_failed"
    ELSE /\ trig' = [trig EXCEPT !.idx = @ + 1]
         /\ UNCHANGED <<pc, exc>>

\* AfterCallback going through the remaining callbacks and then letting the
\* exception of the one that raised reach the caller of trigger
AfterCallback_RaisesAfterLoop(outcome) ==
    /\ trig' = [trig EXCEPT !.idx = @ + 1,
                            !.raised = IF outcome = "raise" THEN @ + 1 ELSE @]
    /\ exc' = IF outcome = "raise" THEN "callback_failed" ELSE exc
    /\ pc' = pc

\* what the loop of trigger does after a callback returned or raised:
\* the exception is caught and logged, the loop goes on
AfterCallback(outcome) ==
    /\ trig' = [trig EXCEPT !.idx = @ + 1,
                            !.raised = IF outcome = "raise" THEN @ + 1 ELSE @]
    /\ UNCHANGED <<pc, exc>>

\* one iteration of `for callback in self._callbacks[event]`
HandlerCall ==
    /\ pc = "trigger"
    /\ trig.idx <= Len(callbacks[trig.event])
    /\ log' = Append(log, Ev("handler", trig.event, callbacks[trig.event][trig.idx], trig.kwargs, 0))
    /\ \E outcome \in {"return", "raise"} : AfterCallback(outcome)
    /\ UNCHANGED <<entry, svcVars, result, callbacks, pmVars, wfVars>>

\* TriggerReturn dropping the callbacks it has just run
TriggerReturn_ConsumesCallbacks ==
    /\ pc = "trigger"
    /\ trig.idx > Len(callbacks[trig.event])
    /\ pc' = trig.ret
    /\ trig' = NoTrigger
    /\ callbacks' = [callbacks EXCEPT ![trig.event] = <<>>]
    /\ UNCHANGED <<entry, svcVars, exc, result, log, pmVars, wfVars>>

\* the loop is exhausted (or the event has no callbacks): trigger returns
TriggerReturn ==
    /\ pc = "trigger"
    /\ trig.idx > Len(callbacks[trig.event])
    /\ pc' = trig.ret
    /\ trig' = NoTrigger
    /\ UNCHANGED <<entry, svcVars, exc, result, log, callbacks, pmVars, wfVars>>

\* a caller triggers an event on the dispatcher directly
CallTrigger(e, kw) ==
    /\ entry = "dispatcher"
    /\ pc = "idle"
    /\ Count(log, {"trigger"}) < MaxTriggers
    /\ EnterTrigger(e, kw, "idle")
    /\ UNCHANGED <<entry, svcVars, exc, result, callbacks, pmVars, wfVars>>

\* ------------------------------------------------------ ManifestProcessor
NoComponent == [id |-> None, type |-> None, nfiles |-> 0]

NoResult == [returned |-> FALSE, success_count |-> 0, total_count |-> 0]

NoFrame == [fail_fast |-> FALSE, type_filter |-> None, name_filter |-> None,
            success_count |-> 0, total_count |-> 0,
            component |-> NoComponent, component_exists |-> <<>>,
            component_files |-> <<>>, survivors |-> 0, failed |-> 0]

\* str.lower() on the characters that occur in the ids and filters of the model
LowerChar(c) == IF c = "A" THEN "a" ELSE IF c = "B" THEN "b" ELSE IF c = "S" THEN "s"
                ELSE IF c = "M" THEN "m" ELSE c

Chars(id) == IF id = "Asm" THEN <<"A", "s", "m">>
             ELSE IF id = "b" THEN <<"b">>
             ELSE IF id = "a" THEN <<"a">>
             ELSE <<>>

Lower(cs) == [i \in 1..Len(cs) |-> LowerChar(cs[i])]

\* Python's `needle in haystack` on strings
IsSubstring(needle, hay) ==
    \E i \in 0..(Len(hay) - Len(needle)) :
        \A j \in 1..Len(needle) : hay[i + j] = needle[j]

\* _should_process_component comparing the name as it is written
ShouldProcessComponent_CaseSensitive(c, tf, nf) ==
    IF tf # None /\ c.type # tf THEN FALSE
    ELSE IF nf # None /\ ~IsSubstring(Chars(nf), Chars(c.id)) THEN FALSE
    ELSE TRUE

\* ManifestProcessor._should_process_component
ShouldProcessComponent(c, tf, nf) ==
    IF tf # None /\ c.type # tf THEN FALSE
    ELSE IF nf # None /\ ~IsSubstring(Lower(Chars(nf)), Lower(Chars(c.id))) THEN FALSE
    ELSE TRUE

\* ManifestProcessor._resolve_component_files: the loop over component.files from
\* file k on; exists[k] is what file_path.exists() answers for the k-th reference.
\* Returns the files collected, whether FileNotFoundError was raised and the
\* number of "Missing file" errors logged.
\* ResolveFrom without the `if fail_fast: raise`: a missing file is only logged
RECURSIVE ResolveFrom_NeverRaises(_, _, _, _, _)
ResolveFrom_NeverRaises(k, n, exists, ff, acc) ==
    IF k > n THEN [files |-> acc, raised |-> FALSE, missing |-> FALSE, errors |-> 0]
    ELSE IF exists[k] THEN ResolveFrom_NeverRaises(k + 1, n, exists, ff, Append(acc, k))
    ELSE [ResolveFrom_NeverRaises(k + 1, n, exists, ff, acc)
            EXCEPT !.missing = TRUE, !.errors = @ + 1]

\* ResolveFrom leaving the loop at the first missing file also without fail_fast
RECURSIVE ResolveFrom_StopsAtMissing(_, _, _, _, _)
ResolveFrom_StopsAtMissing(k, n, exists, ff, acc) ==
    IF k > n THEN [files |-> acc, raised |-> FALSE, missing |-> FALSE, errors |-> 0]
    ELSE IF exists[k] THEN ResolveFrom_StopsAtMissing(k + 1, n, exists, ff, Append(acc, k))
    ELSE [files |-> acc, raised |-> ff, missing |-> TRUE, errors |-> 1]

RECURSIVE ResolveFrom(_, _, _, _, _)
ResolveFrom(k, n, exists, ff, acc) ==
    IF k > n THEN [files |-> acc, raised |-> FALSE, missing |-> FALSE, errors |-> 0]
    ELSE IF exists[k] THEN ResolveFrom(k + 1, n, exists, ff, Append(acc, k))
    ELSE IF ff THEN [files |-> acc, raised |-> TRUE, missing |-> TRUE, errors |-> 1]
    ELSE [ResolveFrom(k + 1, n, exists, ff, acc) EXCEPT !.missing = TRUE, !.errors = @ + 1]

ResolveComponentFiles(n, exists, ff) == ResolveFrom(1, n, exists, ff, <<>>)

\* plugins.get_plugin: the class registered under the name, or ValueError
GetPluginFound(name) == name \in PluginRegistry

\* the components walk_manifest_components can yield: id, type and the number
\* of file references
Components ==
    { [id |-> i, type |-> t, nfiles |-> n] :
        i \in ComponentIds, t \in ComponentTypes, n \in 0..MaxFiles }

\* entering ManifestProcessor.process_manifest; ret is where the caller goes on,
\* history the calls made so far on behalf of the caller's own call
EnterProcessManifest(ff, tf, nf, ret, history) ==
    /\ frame' = [NoFrame EXCEPT !.fail_fast = ff, !.type_filter = tf, !.name_filter = nf]
    /\ pm_ret' = ret
    /\ pm_calls' = pm_calls + 1
    /\ exc' = None
    /\ result' = NoResult
    /\ pc' = "pm_get_plugin"
    /\ log' = Append(history, Step("process_manifest"))

\* a caller calls process_manifest on its ManifestProcessor; log starts afresh
\* with every call of the caller
CallProcessManifest(ff, tf, nf) ==
    /\ entry = "processor"
    /\ pc = "idle"
    /\ pm_calls < MaxCalls
    /\ EnterProcessManifest(ff, tf, nf, "idle", <<>>)
    /\ UNCHANGED <<entry, svcVars, edVars, plugin_name, plugin_instance, instances, wfVars>>

\* plugin_class = get_plugin(self.plugin_name)
PmGetPlugin ==
    /\ pc = "pm_get_plugin"
    /\ IF GetPluginFound(plugin_name)
       THEN pc' = "pm_instantiate" /\ exc' = exc
       ELSE pc' = "pm_finally" /\ exc' = "plugin_not_found"
    /\ UNCHANGED <<entry, svcVars, result, log, edVars, pmVars, wfVars>>

\* self.plugin_instance = plugin_class()
PmInstantiate ==
    /\ pc = "pm_instantiate"
    /\ \/ /\ instances' = instances + 1
          /\ plugin_instance' = instances + 1
          /\ log' = Append(log, Ev("instantiate", None, None, None, instances + 1))
          /\ pc' = "pm_setup"
          /\ exc' = exc
       \/ /\ exc' = "instantiate_failed"
          /\ pc' = "pm_finally"
          /\ UNCHANGED <<instances, plugin_instance, log>>
    /\ UNCHANGED <<entry, svcVars, result, edVars, plugin_name, frame, pm_ret, pm_calls, wfVars>>

\* PmSetup with a failed setup leaving process_manifest at once, past the cleanup
PmSetup_LeavesWithoutCleanup ==
    /\ pc = "pm_setup"
    /\ log' = Append(log, Ev("setup", None, None, None, plugin_instance))
    /\ \/ pc' = "pm_read" /\ exc' = exc
       \/ pc' = pm_ret /\ exc' = "setup_failed"
    /\ UNCHANGED <<entry, svcVars, result, edVars, pmVars, wfVars>>

\* PmSetup with the exception of setup recorded but the run going on to the manifest
PmSetup_GoesOnAfterFailure ==
    /\ pc = "pm_setup"
    /\ log' = Append(log, Ev("setup", None, None, None, plugin_instance))
    /\ \/ pc' = "pm_read" /\ exc' = exc
       \/ pc' = "pm_read" /\ exc' = "setup_failed"
    /\ UNCHANGED <<entry, svcVars, result, edVars, pmVars, wfVars>>

\* self.plugin_instance.setup(repo_path, manifest_path, self.logger)
PmSetup ==
    /\ pc = "pm_setup"
    /\ log' = Append(log, Ev("setup", None, None, None, plugin_instance))
    /\ \/ pc' = "pm_read" /\ exc' = exc
       \/ pc' = "pm_finally" /\ exc' = "setup_failed"
    /\ UNCHANGED <<entry, svcVars, result, edVars, pmVars, wfVars>>

\* manifest_data = service.read_manifest_contents(manifest_path)
PmRead ==
    /\ pc = "pm_read"
    /\ log' = Append(log, Step("read_manifest"))
    /\ \/ pc' = "pm_walk" /\ exc' = exc
       \/ pc' = "pm_finally" /\ exc' = "manifest_unreadable"
    /\ UNCHANGED <<entry, svcVars, result, edVars, pmVars, wfVars>>

\* what _process_components does with a component the walker yielded:
\* count it, filter it, resolve its files; component_exists keeps the answers of
\* exists() for the files the loop looked at (up to the missing one when it raised)
TakeComponent(c, exists) ==
    LET f == frame
        r == ResolveComponentFiles(c.nfiles, exists, f.fail_fast)
    IN  IF ~ShouldProcessComponent(c, f.type_filter, f.name_filter)
        THEN /\ frame' = [f EXCEPT !.total_count = @ + 1]
             /\ pc' = "pm_walk"
             /\ exc' = exc
             /\ log' = log
        ELSE IF r.raised
        THEN /\ frame' = [f EXCEPT !.total_count = @ + 1, !.component = c,
                                   !.component_exists = SubSeq(exists, 1, Len(r.files) + 1),
                                   !.component_files = r.files,
                                   !.survivors = @ + 1, !.failed = @ + 1]
             /\ pc' = "pm_finally"
             /\ exc' = "missing_file"
             /\ log' = log \o LoggedErrors(r.errors, "Missing file")
        ELSE /\ frame' = [f EXCEPT !.total_count = @ + 1, !.component = c,
                                   !.component_exists = exists,
                                   !.component_files = r.files,
                                   !.survivors = @ + 1,
                                   !.failed = IF r.missing THEN @ + 1 ELSE @]
             /\ pc' = "pm_load"
             /\ exc' = exc
             /\ log' = log \o LoggedErrors(r.errors, "Missing file")

\* one iteration of `for component in service.walk_manifest_components(...)`
\* up to the call of the plugin
PmNextComponent ==
    /\ pc = "pm_walk"
    /\ frame.total_count < MaxComponents
    /\ \E c \in Components :
         \E exists \in [1..c.nfiles -> BOOLEAN] : TakeComponent(c, exists)
    /\ UNCHANGED <<entry, svcVars, result, edVars, plugin_name, plugin_instance, pm_ret,
                   instances, pm_calls, wfVars>>

\* the walker is exhausted: return success_count, total_count
PmWalkDone ==
    /\ pc = "pm_walk"
    /\ result' = [returned |-> TRUE, success_count |-> frame.success_count,
                  total_count |-> frame.total_count]
    /\ pc' = "pm_finally"
    /\ UNCHANGED <<entry, svcVars, exc, log, edVars, pmVars, wfVars>>

\* AfterLoad with every failure treated as under fail_fast
AfterLoad_AlwaysAborts(outcome) ==
    LET f == frame
    IN  IF outcome = "true"
        THEN /\ frame' = [f EXCEPT !.success_count = @ + 1,
                                   !.component = NoComponent, !.component_exists = <<>>,
                                   !.component_files = <<>>]
             /\ pc' = "pm_walk"
             /\ exc' = exc
        ELSE /\ frame' = [f EXCEPT !.failed = IF Len(f.component_files) < f.component.nfiles
                                               THEN @ ELSE @ + 1]
             /\ pc' = "pm_finally"
             /\ exc' = IF outcome = "false" THEN "load_returned_false" ELSE "load_raised"

\* AfterLoad without the `if success` test: any returned value counts as a success
AfterLoad_CountsFalseAsSuccess(outcome) ==
    LET f == frame
    IN  IF outcome \in {"true", "false"}
        THEN /\ frame' = [f EXCEPT !.success_count = @ + 1,
                                   !.component = NoComponent, !.component_exists = <<>>,
                                   !.component_files = <<>>]
             /\ pc' = "pm_walk"
             /\ exc' = exc
        ELSE IF f.fail_fast
        THEN /\ frame' = [f EXCEPT !.failed = IF Len(f.component_files) < f.component.nfiles
                                               THEN @ ELSE @ + 1]
             /\ pc' = "pm_finally"
             /\ exc' = "load_raised"
        ELSE /\ frame' = [f EXCEPT !.failed = IF Len(f.component_files) < f.component.nfiles
                                               THEN @ ELSE @ + 1,
                                   !.component = NoComponent, !.component_exists = <<>>,
                                   !.component_files = <<>>]
             /\ pc' = "pm_walk"
             /\ exc' = exc

\* ManifestProcessor._process_single_component after load_component answered
AfterLoad(outcome) ==
    LET f == frame
    IN  IF outcome = "true"
        THEN /\ frame' = [f EXCEPT !.success_count = @ + 1,
                                   !.component = NoComponent, !.component_exists = <<>>,
                                   !.component_files = <<>>]
             /\ pc' = "pm_walk"
             /\ exc' = exc
        ELSE IF f.fail_fast
        THEN /\ frame' = [f EXCEPT !.failed = IF Len(f.component_files) < f.component.nfiles
                                               THEN @ ELSE @ + 1]
             /\ pc' = "pm_finally"
             /\ exc' = IF outcome = "false" THEN "load_returned_false" ELSE "load_raised"
        ELSE /\ frame' = [f EXCEPT !.failed = IF Len(f.component_files) < f.component.nfiles
                                               THEN @ ELSE @ + 1,
                                   !.component = NoComponent, !.component_exists = <<>>,
                                   !.component_files = <<>>]
             /\ pc' = "pm_walk"
             /\ exc' = exc

\* the keyword arguments of the load_component call in _process_single_component
LoadComponentKeywords ==
    {"component_id", "component_type", "component_description", "component_files", "parent_id"}

\* the parameters of load_component (after self) in the plugin classes
LoadComponentParams(name) ==
    {"component_id", "component_type", "component_description", "component_files"}
    \cup (IF name = "debug" THEN {"component_parent_id"} ELSE {"component_parent_path"})

\* Python's binding of a keyword-only call to parameters without defaults:
\* every parameter is given and no keyword is unexpected, else TypeError
KeywordsBind(keywords, params) == keywords = params

\* the load_component call as the backend sees it, with what came of it:
\* "true" / "false" returned, or "raise" for an exception out of the try block
LoadEv(inst, ret) ==
    [op |-> "load", ev |-> None, h |-> None, kw |-> None, inst |-> inst,
     keywords |-> LoadComponentKeywords, ret |-> ret]

\* the errors _process_single_component logs: a false result is logged and, under
\* fail_fast, the RuntimeError it raises is caught and logged by the except clause
LoadErrors(outcome, ff) ==
    IF outcome = "true" THEN <<>>
    ELSE IF outcome = "false"
    THEN <<LoggerError("Failed to process component")>>
         \o (IF ff THEN <<LoggerError("Plugin error processing")>> ELSE <<>>)
    ELSE <<LoggerError("Plugin error processing")>>

\* self.plugin_instance.load_component(...) for the current component. What the
\* call yields is the backend's affair: a true or false result, or an exception
\* out of the try block (raised by the backend, or by Python when the backend's
\* signature does not bind the call)
PmLoad ==
    /\ pc = "pm_load"
    /\ \E outcome \in {"true", "false", "raise"} :
         /\ log' = Append(log, LoadEv(plugin_instance, outcome))
                       \o LoadErrors(outcome, frame.fail_fast)
         /\ AfterLoad(outcome)
    /\ UNCHANGED <<entry, svcVars, result, edVars, plugin_name, plugin_instance, pm_ret,
                   instances, pm_calls, wfVars>>

\* PmFinally with the cleanup on the normal return path only (no try/finally)
PmFinally_CleanupOnReturnOnly ==
    /\ pc = "pm_finally"
    /\ IF plugin_instance # 0 /\ exc = None
       THEN /\ log' = Append(log, Ev("teardown", None, None, None, plugin_instance))
            /\ \/ /\ plugin_instance' = 0
                  /\ UNCHANGED <<exc, result>>
               \/ /\ exc' = "teardown_failed"
                  /\ result' = NoResult
                  /\ UNCHANGED plugin_instance
       ELSE UNCHANGED <<log, plugin_instance, exc, result>>
    /\ pc' = pm_ret
    /\ UNCHANGED <<entry, svcVars, edVars, plugin_name, frame, pm_ret, instances, pm_calls, wfVars>>

\* the finally block of process_manifest, then the return or the raise to the caller
PmFinally ==
    /\ pc = "pm_finally"
    /\ IF plugin_instance # 0
       THEN /\ log' = Append(log, Ev("teardown", None, None, None, plugin_instance))
            /\ \/ /\ plugin_instance' = 0
                  /\ UNCHANGED <<exc, result>>
               \/ /\ exc' = "teardown_failed"
                  /\ result' = NoResult
                  /\ UNCHANGED plugin_instance
       ELSE UNCHANGED <<log, plugin_instance, exc, result>>
    /\ pc' = pm_ret
    /\ UNCHANGED <<entry, svcVars, edVars, plugin_name, frame, pm_ret, instances, pm_calls, wfVars>>

\* ------------------------------------------------------------ run_workflow
\* wf keeps the arguments as the caller passed them; repo_url, repo_commit and
\* repo_path are also locals that run_workflow assigns to (the variables of
\* these names)
NoWorkflow == [called |-> FALSE, metadata_file_path |-> FALSE, fail_fast |-> FALSE,
               plugin |-> None, type_filter |-> None, name_filter |-> None,
               event_dispatcher |-> FALSE,
               repo_url |-> None, repo_commit |-> "main", repo_path |-> None]

\* what the workflow_completed handlers received: nothing yet
NoKwargs ==
    [success_count |-> 0, total_count |-> 0, workflow_succeeded |-> FALSE,
     workflow_exception |-> None]

\* the dispatcher a caller hands to run_workflow: nothing registered on
\* workflow_started, one or two callbacks on the other events
SampleDispatchers ==
    { [e \in Events |-> IF e = "workflow_started" THEN <<>>
                        ELSE IF e = "repository_ready" THEN <<"h1">>
                        ELSE IF e = "manifests_ready" THEN <<"h1", "h2">>
                        ELSE <<"h2">>] }

\* the (type_filter, name_filter) pairs a caller hands to run_workflow
FilterPairs == {<<None, None>>, <<"part", "a">>}

\* InputRejected with the commit left out of the first check
InputRejected_IgnoresCommit(meta, url, commit, path) ==
    \/ meta /\ url # None
    \/ ~meta /\ url = None /\ path = None

\* the input validation at the head of run_workflow: TRUE when it raises ValueError
InputRejected(meta, url, commit, path) ==
    \/ meta /\ (url # None \/ commit # "main")
    \/ ~meta /\ url = None /\ path = None

\* a caller calls run_workflow
CallRunWorkflow(meta, url, commit, path, ff, pl, tf, nf, ed, cbs) ==
    /\ entry = "workflow"
    /\ pc = "idle"
    /\ ~wf.called
    /\ wf' = [called |-> TRUE, metadata_file_path |-> meta, fail_fast |-> ff, plugin |-> pl,
              type_filter |-> tf, name_filter |-> nf, event_dispatcher |-> ed,
              repo_url |-> url, repo_commit |-> commit, repo_path |-> path]
    /\ repo_url' = url
    /\ repo_commit' = commit
    /\ repo_path' = path
    /\ callbacks' = cbs
    /\ pc' = "wf_validate"
    /\ log' = Append(log, Step("run_workflow"))
    /\ UNCHANGED <<entry, svcVars, exc, result, trig, pmVars, release, success_count, total_count,
                   workflow_succeeded, workflow_exception, cad_manifest, sim_manifest,
                   validation_errors, temp_dir, completed_kwargs>>

\* input validation, then the workflow_started event
WfValidate ==
    /\ pc = "wf_validate"
    /\ IF InputRejected(wf.metadata_file_path, repo_url, repo_commit, repo_path)
       THEN /\ exc' = "invalid_input"
            /\ pc' = "done"
            /\ UNCHANGED <<trig, log>>
       ELSE /\ MaybeTrigger("workflow_started", "wf_metadata")
            /\ exc' = exc
    /\ UNCHANGED <<entry, svcVars, result, callbacks, pmVars, wfVars>>

\* 1. Extract release info if needed
WfMetadata ==
    /\ pc = "wf_metadata"
    /\ IF wf.metadata_file_path
       THEN /\ log' = Append(log, Step("load_metadata"))
            /\ \/ /\ release' = "release"
                  /\ repo_url' = "release.url"
                  /\ repo_commit' = "release.marker"
                  /\ pc' = "wf_clone"
                  /\ exc' = exc
               \/ /\ exc' = "metadata_failed"
                  /\ pc' = "wf_except"
                  /\ UNCHANGED <<release, repo_url, repo_commit>>
       ELSE /\ pc' = "wf_clone"
            /\ UNCHANGED <<log, release, repo_url, repo_commit, exc>>
    /\ UNCHANGED <<entry, svcVars, result, edVars, pmVars, wf, repo_path, success_count, total_count,
                   workflow_succeeded, workflow_exception, cad_manifest, sim_manifest,
                   validation_errors, temp_dir, completed_kwargs>>

\* WfClone cloning whenever a repo_url is known, repo_path given or not
WfClone_ClonesWhenUrlKnown ==
    /\ pc = "wf_clone"
    /\ IF repo_path = None \/ repo_url # None
       THEN /\ log' = Append(log, Step("clone"))
            /\ \/ /\ temp_dir' = "exists"
                  /\ repo_path' = "target_repo_path"
                  /\ pc' = "wf_repository_ready"
                  /\ exc' = exc
               \/ /\ temp_dir' = "deleted"
                  /\ exc' = "clone_failed"
                  /\ pc' = "wf_except"
                  /\ UNCHANGED repo_path
       ELSE /\ pc' = "wf_repository_ready"
            /\ UNCHANGED <<log, temp_dir, repo_path, exc>>
    /\ UNCHANGED <<entry, svcVars, result, edVars, pmVars, wf, repo_url, repo_commit, release,
                   success_count, total_count, workflow_succeeded, workflow_exception,
                   cad_manifest, sim_manifest, validation_errors, completed_kwargs>>

\* 2. Clone repository if needed, inside _local_repository_dir
WfClone ==
    /\ pc = "wf_clone"
    /\ IF repo_path = None
       THEN /\ log' = Append(log, Step("clone"))
            /\ \/ /\ temp_dir' = "exists"
                  /\ repo_path' = "target_repo_path"
                  /\ pc' = "wf_repository_ready"
                  /\ exc' = exc
               \/ /\ temp_dir' = "deleted"
                  /\ exc' = "clone_failed"
                  /\ pc' = "wf_except"
                  /\ UNCHANGED repo_path
       ELSE /\ pc' = "wf_repository_ready"
            /\ UNCHANGED <<log, temp_dir, repo_path, exc>>
    /\ UNCHANGED <<entry, svcVars, result, edVars, pmVars, wf, repo_url, repo_commit, release,
                   success_count, total_count, workflow_succeeded, workflow_exception,
                   cad_manifest, sim_manifest, validation_errors, completed_kwargs>>

\* the repository_ready event
WfRepositoryReady ==
    /\ pc = "wf_repository_ready"
    /\ MaybeTrigger("repository_ready", "wf_find")
    /\ UNCHANGED <<entry, svcVars, exc, result, callbacks, pmVars, wfVars>>

\* WfFind with the missing manifests fatal under fail_fast only
WfFind_FatalOnlyUnderFailFast ==
    /\ pc = "wf_find"
    /\ log' = Append(log, Step("find_manifests"))
    /\ \E cad \in BOOLEAN, sim \in BOOLEAN :
         /\ cad_manifest' = cad
         /\ sim_manifest' = sim
         /\ IF ~cad /\ ~sim /\ wf.fail_fast
            THEN exc' = "no_manifest" /\ pc' = "wf_except"
            ELSE exc' = exc /\ pc' = "wf_validate_cad"
    /\ UNCHANGED <<entry, svcVars, result, edVars, pmVars, wf, repo_url, repo_commit, repo_path,
                   release, success_count, total_count, workflow_succeeded,
                   workflow_exception, validation_errors, temp_dir, completed_kwargs>>

\* _process_manifests, 1. Find hornet manifests
WfFind ==
    /\ pc = "wf_find"
    /\ log' = Append(log, Step("find_manifests"))
    /\ \E cad \in BOOLEAN, sim \in BOOLEAN :
         /\ cad_manifest' = cad
         /\ sim_manifest' = sim
         /\ IF ~cad /\ ~sim
            THEN exc' = "no_manifest" /\ pc' = "wf_except"
            ELSE exc' = exc /\ pc' = "wf_validate_cad"
    /\ UNCHANGED <<entry, svcVars, result, edVars, pmVars, wf, repo_url, repo_commit, repo_path,
                   release, success_count, total_count, workflow_succeeded,
                   workflow_exception, validation_errors, temp_dir, completed_kwargs>>

\* what validate_manifest_schema can raise: no $schema field (FileNotFoundError),
\* the schema download (httpx.HTTPError), the validation (jsonschema.ValidationError)
SchemaFailures == {"schema_field_missing", "schema_download_failed", "schema_invalid"}

\* the try body around validate_manifest_schema(manifest) in _process_manifests:
\* the call returns, or raises into the except clause
ValidateManifest(present, which, handler, next) ==
    IF present
    THEN /\ log' = Append(log, Step(which))
         /\ \/ /\ pc' = next
               /\ exc' = exc
            \/ \E e \in SchemaFailures :
                 /\ exc' = e
                 /\ pc' = handler
    ELSE /\ pc' = next
         /\ UNCHANGED <<log, exc>>

\* the except clause: `if fail_fast: raise`, else the error joins validation_errors
ValidationExcept(which, next) ==
    IF wf.fail_fast
    THEN /\ pc' = "wf_except"
         /\ UNCHANGED <<exc, validation_errors>>
    ELSE /\ validation_errors' = Append(validation_errors, which)
         /\ exc' = None
         /\ pc' = next

\* 2. Validate manifests: the CAD manifest
WfValidateCad ==
    /\ pc = "wf_validate_cad"
    /\ ValidateManifest(cad_manifest, "validate_cad", "wf_validate_cad_except",
                        "wf_validate_sim")
    /\ UNCHANGED <<entry, svcVars, result, edVars, pmVars, wf, repo_url, repo_commit, repo_path,
                   release, success_count, total_count, workflow_succeeded,
                   workflow_exception, cad_manifest, sim_manifest, validation_errors,
                   temp_dir, completed_kwargs>>

\* the except clause of the CAD validation
WfValidateCadExcept ==
    /\ pc = "wf_validate_cad_except"
    /\ ValidationExcept("validate_cad", "wf_validate_sim")
    /\ UNCHANGED <<entry, svcVars, result, log, edVars, pmVars, wf, repo_url, repo_commit,
                   repo_path, release, success_count, total_count, workflow_succeeded,
                   workflow_exception, cad_manifest, sim_manifest, temp_dir, completed_kwargs>>

\* 2. Validate manifests: the SIM manifest
WfValidateSim ==
    /\ pc = "wf_validate_sim"
    /\ ValidateManifest(sim_manifest, "validate_sim", "wf_validate_sim_except",
                        "wf_manifests_ready")
    /\ UNCHANGED <<entry, svcVars, result, edVars, pmVars, wf, repo_url, repo_commit, repo_path,
                   release, success_count, total_count, workflow_succeeded,
                   workflow_exception, cad_manifest, sim_manifest, validation_errors,
                   temp_dir, completed_kwargs>>

\* the except clause of the SIM validation
WfValidateSimExcept ==
    /\ pc = "wf_validate_sim_except"
    /\ ValidationExcept("validate_sim", "wf_manifests_ready")
    /\ UNCHANGED <<entry, svcVars, result, log, edVars, pmVars, wf, repo_url, repo_commit,
                   repo_path, release, success_count, total_count, workflow_succeeded,
                   workflow_exception, cad_manifest, sim_manifest, temp_dir, completed_kwargs>>

\* WfManifestsReady triggering the event of the step before it
WfManifestsReady_WrongEvent ==
    /\ pc = "wf_manifests_ready"
    /\ MaybeTrigger("repository_ready", "wf_process")
    /\ UNCHANGED <<entry, svcVars, exc, result, callbacks, pmVars, wfVars>>

\* WfManifestsReady without the trigger
WfManifestsReady_NotTriggered ==
    /\ pc = "wf_manifests_ready"
    /\ pc' = "wf_process"
    /\ UNCHANGED <<entry, svcVars, exc, result, log, edVars, pmVars, wfVars>>

\* 3. Trigger manifests ready event
WfManifestsReady ==
    /\ pc = "wf_manifests_ready"
    /\ MaybeTrigger("manifests_ready", "wf_process")
    /\ UNCHANGED <<entry, svcVars, exc, result, callbacks, pmVars, wfVars>>

\* the fail_fast argument _process_manifest_with_plugin hands to process_manifest
ProcessorFailFast(ff) == TRUE

\* WfProcess handing whichever manifest was found to the processor
WfProcess_ProcessesAnyManifest ==
    /\ pc = "wf_process"
    /\ IF cad_manifest \/ sim_manifest
       THEN /\ plugin_name' = wf.plugin
            /\ EnterProcessManifest(ProcessorFailFast(wf.fail_fast), wf.type_filter,
                                    wf.name_filter, "wf_after_process", log)
       ELSE /\ result' = [returned |-> TRUE, success_count |-> 0, total_count |-> 0]
            /\ pc' = "wf_after_process"
            /\ UNCHANGED <<plugin_name, frame, pm_ret, pm_calls, exc, log>>
    /\ UNCHANGED <<entry, svcVars, edVars, plugin_instance, instances, wfVars>>

\* 4. Process CAD manifest with plugin (_process_manifest_with_plugin), or return 0, 0
WfProcess ==
    /\ pc = "wf_process"
    /\ IF cad_manifest
       THEN /\ plugin_name' = wf.plugin
            /\ EnterProcessManifest(ProcessorFailFast(wf.fail_fast), wf.type_filter,
                                    wf.name_filter, "wf_after_process", log)
       ELSE /\ result' = [returned |-> TRUE, success_count |-> 0, total_count |-> 0]
            /\ pc' = "wf_after_process"
            /\ UNCHANGED <<plugin_name, frame, pm_ret, pm_calls, exc, log>>
    /\ UNCHANGED <<entry, svcVars, edVars, plugin_instance, instances, wfVars>>

\* WfAfterProcess with the counts of the loads made so far kept when the
\* processing raises
WfAfterProcess_KeepsPartialCounts ==
    /\ pc = "wf_after_process"
    /\ IF exc # None
       THEN /\ pc' = "wf_except"
            /\ success_count' = frame.success_count
            /\ total_count' = frame.total_count
            /\ UNCHANGED workflow_succeeded
       ELSE /\ success_count' = result.success_count
            /\ total_count' = result.total_count
            /\ workflow_succeeded' = TRUE
            /\ pc' = "wf_finally"
    /\ UNCHANGED <<entry, svcVars, exc, result, log, edVars, pmVars, wf, repo_url, repo_commit,
                   repo_path, release, workflow_exception, cad_manifest, sim_manifest,
                   validation_errors, temp_dir, completed_kwargs>>

\* back in run_workflow: the counts are assigned and workflow_succeeded set,
\* or the exception reaches the except clause
WfAfterProcess ==
    /\ pc = "wf_after_process"
    /\ IF exc # None
       THEN /\ pc' = "wf_except"
            /\ UNCHANGED <<success_count, total_count, workflow_succeeded>>
       ELSE /\ success_count' = result.success_count
            /\ total_count' = result.total_count
            /\ workflow_succeeded' = TRUE
            /\ pc' = "wf_finally"
    /\ UNCHANGED <<entry, svcVars, exc, result, log, edVars, pmVars, wf, repo_url, repo_commit,
                   repo_path, release, workflow_exception, cad_manifest, sim_manifest,
                   validation_errors, temp_dir, completed_kwargs>>

\* WfExcept with the exception leaving run_workflow past the finally block
WfExcept_SkipsFinally ==
    /\ pc = "wf_except"
    /\ workflow_exception' = exc
    /\ pc' = "wf_return"
    /\ UNCHANGED <<entry, svcVars, exc, result, log, edVars, pmVars, wf, repo_url, repo_commit,
                   repo_path, release, success_count, total_count, workflow_succeeded,
                   cad_manifest, sim_manifest, validation_errors, temp_dir, completed_kwargs>>

\* WfExcept re-raising without keeping the exception for the completed event
WfExcept_ForgetsException ==
    /\ pc = "wf_except"
    /\ pc' = "wf_finally"
    /\ UNCHANGED <<entry, svcVars, exc, result, log, edVars, pmVars, wfVars>>

\* except Exception as e: workflow_exception = e; raise
WfExcept ==
    /\ pc = "wf_except"
    /\ workflow_exception' = exc
    /\ pc' = "wf_finally"
    /\ UNCHANGED <<entry, svcVars, exc, result, log, edVars, pmVars, wf, repo_url, repo_commit,
                   repo_path, release, success_count, total_count, workflow_succeeded,
                   cad_manifest, sim_manifest, validation_errors, temp_dir, completed_kwargs>>

\* the keyword arguments of the workflow_completed trigger: the locals of
\* run_workflow as they stand when the finally block runs
CompletedKwargs ==
    [success_count |-> success_count, total_count |-> total_count,
     workflow_succeeded |-> workflow_succeeded, workflow_exception |-> workflow_exception]

\* finally: the workflow_completed event
WfFinally ==
    /\ pc = "wf_finally"
    /\ MaybeTrigger("workflow_completed", "wf_return")
    /\ completed_kwargs' = IF wf.event_dispatcher THEN CompletedKwargs ELSE completed_kwargs
    /\ UNCHANGED <<entry, svcVars, exc, result, callbacks, pmVars, wf, repo_url, repo_commit,
                   repo_path, release, success_count, total_count, workflow_succeeded,
                   workflow_exception, cad_manifest, sim_manifest, validation_errors,
                   temp_dir>>

\* return success_count, total_count; or the exception leaves run_workflow
WfReturn ==
    /\ pc = "wf_return"
    /\ result' = IF exc = None
                 THEN [returned |-> TRUE, success_count |-> success_count,
                       total_count |-> total_count]
                 ELSE NoResult
    /\ pc' = "done"
    /\ UNCHANGED <<entry, svcVars, exc, log, edVars, pmVars, wfVars>>

\* ------------------------------------------------- services at rest
\* the variables of the orchestration core while a service is driven alone
CoreAtRest ==
    /\ pc = "idle"
    /\ exc = None
    /\ result = NoResult
    /\ log = <<>>
    /\ callbacks = EmptyCallbacks
    /\ trig = NoTrigger
    /\ plugin_name = None
    /\ plugin_instance = 0
    /\ frame = NoFrame
    /\ pm_ret = None
    /\ instances = 0
    /\ pm_calls = 0
    /\ wf = NoWorkflow
    /\ repo_url = None
    /\ repo_commit = "main"
    /\ repo_path = None
    /\ release = None
    /\ success_count = 0
    /\ total_count = 0
    /\ workflow_succeeded = FALSE
    /\ workflow_exception = None
    /\ cad_manifest = FALSE
    /\ sim_manifest = FALSE
    /\ validation_errors = <<>>
    /\ temp_dir = None
    /\ completed_kwargs = NoKwargs

coreVars == <<exc, result, log, edVars, pmVars, wfVars>>

\* a parsed path: "" (relative), "/" or "//" in front, then the segments
NoPath == [root |-> "", parts |-> <<>>]

\* resolve_component_file_path before it is called
NoResolve ==
    [pc |-> "start", manifest_file |-> NoPath, file_path |-> <<>>, repo_dir |-> NoPath,
     exists |-> FALSE, result |-> NoPath]

\* no API function called yet
NoApiCall ==
    [pc |-> "start", fn |-> None, fail_fast |-> FALSE, steps |-> <<>>, step |-> None,
     raised |-> None, escaped |-> None]

NoWalk ==
    [pc |-> "start", manifest_data |-> <<>>, type_filter |-> None, name_filter |-> None,
     stack |-> <<>>, yielded |-> <<>>, positions |-> <<>>,
     total_count |-> 0, processed |-> <<>>]

\* the file _handle_metadata_file is working on: none
NoChange == [name |-> None, change_type |-> 0, origin |-> None]

\* what _check_file_stability read: nothing yet
NoSamples == [exists1 |-> FALSE, stat1 |-> FALSE, size1 |-> 0,
              exists2 |-> FALSE, stat2 |-> FALSE, size2 |-> 0]

NoWatch ==
    [pc |-> "start", once |-> TRUE, fail_fast |-> FALSE,
     metadata_filename |-> "metadata.json",
     batches |-> 0, changes |-> <<>>, current |-> NoChange,
     checked |-> FALSE, samples |-> NoSamples, stable |-> FALSE,
     outcome |-> FALSE, handled |-> 0, skipped |-> 0, failed |-> 0,
     interrupted |-> FALSE, exc |-> None]

\* the worker threads that call wait_for_app_ready_sync
Threads == 1..MaxWaiters

\* the asyncio.Event (value, the loop it is bound to: 0 for none yet, else the
\* thread whose asyncio.run loop it is; the threads with a future among its
\* waiters), the loops with a callback in their ready queue, the thread that
\* runs the bridge's own loop, and where each worker thread stands
NoBridge ==
    [value |-> FALSE, loop |-> 0, waiters |-> {}, ready |-> {},
     loop_thread |-> "running",
     pc |-> [t \in Threads |-> "idle"],
     called_when_set |-> {}]

\* ------------------------------------------------------ manifest discovery
\* what a path of the repository is on disk
PathKinds == {"absent", "file", "dir"}

\* the repositories find_hornet_manifests can be pointed at: .hornet and the
\* two manifest names under it and at the root; nothing lies under a .hornet
\* that is not a directory
Repositories ==
    {r \in [hornet : PathKinds, hornet_cad : PathKinds, hornet_sim : PathKinds,
            root_cad : PathKinds, root_sim : PathKinds] :
        r.hornet # "dir" => (r.hornet_cad = "absent" /\ r.hornet_sim = "absent")}

NoDiscovery ==
    [repo |-> [hornet |-> "absent", hornet_cad |-> "absent", hornet_sim |-> "absent",
               root_cad |-> "absent", root_sim |-> "absent"],
     returned |-> FALSE, cad_manifest |-> None, sim_manifest |-> None]

\* _check(target): the target when it exists and is a file
CheckTarget(target, kind) == IF kind = "file" THEN target ELSE None

\* find_hornet_manifests(repo_path)
FindHornetManifests(r) ==
    IF r.hornet # "absent"
    THEN <<CheckTarget(".hornet/cad_manifest.json", r.hornet_cad),
           CheckTarget(".hornet/sim_manifest.json", r.hornet_sim)>>
    ELSE <<CheckTarget("cad_manifest.json", r.root_cad),
           CheckTarget("sim_manifest.json", r.root_sim)>>

\* one call of find_hornet_manifests on the repository
CallFindHornetManifests ==
    /\ entry = "discovery"
    /\ ~disc.returned
    /\ LET found == FindHornetManifests(disc.repo)
       IN  disc' = [disc EXCEPT !.returned = TRUE,
                                !.cad_manifest = found[1],
                                !.sim_manifest = found[2]]
    /\ UNCHANGED <<entry, pc, coreVars, walk, watch, bridge, resolver, api>>

InitFind ==
    /\ entry = "discovery"
    /\ CoreAtRest
    /\ disc \in {[NoDiscovery EXCEPT !.repo = r] : r \in Repositories}
    /\ walk = NoWalk
    /\ watch = NoWatch
    /\ bridge = NoBridge
    /\ resolver = NoResolve
    /\ api = NoApiCall

NextFind == CallFindHornetManifests

SpecFind == InitFind /\ [][NextFind]_vars

\* ------------------------------------------------------ component walk
\* the "components" lists a manifest can hold, with at most n component
\* dictionaries in all; each dictionary has an id, a type and its own
\* "components" list (empty for a leaf)
RECURSIVE Forests(_)
Forests(n) ==
    IF n = 0 THEN {<<>>}
    ELSE {<<>>} \cup
         UNION {{<<[id |-> i, type |-> t, components |-> kids]>> \o rest :
                    i \in ComponentIds, t \in ComponentTypes,
                    kids \in Forests(k - 1), rest \in Forests(n - k)} : k \in 1..n}

\* Component(id=..., type=..., parent_path=parent_path.copy()); description and
\* files are copied from the dictionary and play no part in the walk
NewComponent(component_dict, parent_path) ==
    [id |-> component_dict.id, type |-> component_dict.type, parent_path |-> parent_path]

\* child_path with the parent's id in front instead of at the end
ChildPath_LeafFirst(parent_path, id) == <<id>> \o parent_path

\* child_path = parent_path + [component_dict["id"]]
ChildPath(parent_path, id) == Append(parent_path, id)

\* the caller starts iterating walk_manifest_components(manifest_data):
\* parent_path is None, so it becomes []
WalkCall ==
    /\ entry = "walker"
    /\ walk.pc = "start"
    /\ walk' = [walk EXCEPT
                  !.stack = <<[components |-> walk.manifest_data, i |-> 0,
                               parent_path |-> <<>>]>>,
                  !.pc = "loop"]
    /\ UNCHANGED <<entry, pc, coreVars, disc, watch, bridge, resolver, api>>

\* `for component_dict in components` of the innermost generator: the next
\* dictionary becomes a Component and is yielded, or the loop is over and the
\* generator returns to the `yield from` of the one that called it. positions
\* keeps where the loops of the generators stood at each yield.
WalkLoop ==
    /\ entry = "walker"
    /\ walk.pc = "loop"
    /\ LET top == Len(walk.stack)
           f == walk.stack[top]
       IN  IF f.i < Len(f.components)
           THEN LET stack == [walk.stack EXCEPT ![top].i = f.i + 1]
                IN  walk' = [walk EXCEPT
                               !.stack = stack,
                               !.yielded = Append(@, NewComponent(f.components[f.i + 1],
                                                                  f.parent_path)),
                               !.positions = Append(@, [k \in 1..top |-> stack[k].i]),
                               !.pc = "yielded"]
           ELSE walk' = [walk EXCEPT
                           !.stack = SubSeq(walk.stack, 1, top - 1),
                           !.pc = IF top = 1 THEN "done" ELSE "loop"]
    /\ UNCHANGED <<entry, pc, coreVars, disc, watch, bridge, resolver, api>>

\* WalkConsume only collecting the component, the filter and the backend left
\* for after the walk
WalkConsume_CollectsFirst ==
    /\ entry = "walker"
    /\ walk.pc = "yielded"
    /\ walk' = [walk EXCEPT !.total_count = @ + 1, !.pc = "resume"]
    /\ UNCHANGED <<entry, pc, coreVars, disc, watch, bridge, resolver, api>>

\* the body of the caller's loop, ManifestProcessor._process_components: the
\* component is counted and the filter decides whether it goes on to the
\* backend (processed) or the loop continues with the next one
WalkConsume ==
    /\ entry = "walker"
    /\ walk.pc = "yielded"
    /\ walk' = [walk EXCEPT
                  !.total_count = @ + 1,
                  !.processed = Append(@, ShouldProcessComponent(
                                             walk.yielded[Len(walk.yielded)],
                                             walk.type_filter, walk.name_filter)),
                  !.pc = "resume"]
    /\ UNCHANGED <<entry, pc, coreVars, disc, watch, bridge, resolver, api>>

\* WalkResume without the recursion into the child components
WalkResume_NoRecursion ==
    /\ entry = "walker"
    /\ walk.pc = "resume"
    /\ walk' = [walk EXCEPT !.pc = "loop"]
    /\ UNCHANGED <<entry, pc, coreVars, disc, watch, bridge, resolver, api>>

\* the generator resumes after the yield: a dictionary with a non-empty
\* "components" list is walked by a new generator, with the child path
WalkResume ==
    /\ entry = "walker"
    /\ walk.pc = "resume"
    /\ LET f == walk.stack[Len(walk.stack)]
           component_dict == f.components[f.i]
       IN  IF component_dict.components # <<>>
           THEN walk' = [walk EXCEPT
                           !.stack = Append(@, [components |-> component_dict.components,
                                                i |-> 0,
                                                parent_path |-> ChildPath(f.parent_path,
                                                                          component_dict.id)]),
                           !.pc = "loop"]
           ELSE walk' = [walk EXCEPT !.pc = "loop"]
    /\ UNCHANGED <<entry, pc, coreVars, disc, watch, bridge, resolver, api>>

InitWalk ==
    /\ entry = "walker"
    /\ CoreAtRest
    /\ disc = NoDiscovery
    /\ walk \in {[NoWalk EXCEPT !.manifest_data = m, !.type_filter = tf, !.name_filter = nf] :
                    m \in Forests(MaxNodes), tf \in TypeFilters, nf \in NameFilters}
    /\ watch = NoWatch
    /\ bridge = NoBridge
    /\ resolver = NoResolve
    /\ api = NoApiCall

NextWalk ==
    \/ WalkCall
    \/ WalkLoop
    \/ WalkConsume
    \/ WalkResume

SpecWalk == InitWalk /\ [][NextWalk]_vars

\* ------------------------------------------------------ metadata watcher
\* file names that show up in the watched directory
FileNames == {"metadata.json", "notes.txt"}

\* watchfiles.Change: added = 1, modified = 2, deleted = 3
ChangeTypes == {1, 2, 3}

\* the sets of changes one step of watch() can deliver, in the order the inner
\* loop takes them
RECURSIVE ChangeSeqs(_)
ChangeSeqs(n) ==
    IF n = 0 THEN {<<>>}
    ELSE ChangeSeqs(n - 1) \cup
         {Append(b, [change_type |-> t, name |-> f]) :
             b \in ChangeSeqs(n - 1), t \in ChangeTypes, f \in FileNames}

Batches == ChangeSeqs(MaxChanges) \ {<<>>}

\* what the two looks of _check_file_stability at the file can find: exists(),
\* whether stat() works (it raises OSError otherwise) and st_size, before and
\* after the sleep; a reading the function does not get to stays at its default
Samples ==
    {m \in [exists1 : BOOLEAN, stat1 : BOOLEAN, size1 : 0..MaxSize,
            exists2 : BOOLEAN, stat2 : BOOLEAN, size2 : 0..MaxSize] :
        /\ ~m.exists1 => ~m.stat1
        /\ ~m.stat1 => (m.size1 = 0 /\ ~m.exists2)
        /\ ~m.exists2 => ~m.stat2
        /\ ~m.stat2 => m.size2 = 0}

\* _check_file_stability without the `initial_size > 0`
CheckFileStability_AcceptsEmpty(m) ==
    IF ~m.exists1 THEN FALSE
    ELSE IF ~m.stat1 THEN FALSE
    ELSE IF ~m.exists2 THEN FALSE
    ELSE IF ~m.stat2 THEN FALSE
    ELSE m.size1 = m.size2

\* _check_file_stability(file_path, stability_seconds)
CheckFileStability(m) ==
    IF ~m.exists1 THEN FALSE
    ELSE IF ~m.stat1 THEN FALSE
    ELSE IF ~m.exists2 THEN FALSE
    ELSE IF ~m.stat2 THEN FALSE
    ELSE m.size1 = m.size2 /\ m.size1 > 0

\* watch_for_metadata: the inputs directory is validated and the work
\* directory created
WatchValidate ==
    /\ entry = "watcher"
    /\ watch.pc = "start"
    /\ \E inputs_dir \in PathKinds, mkdir_ok \in BOOLEAN :
         IF inputs_dir = "absent"
         THEN watch' = [watch EXCEPT !.pc = "raised", !.exc = "FileNotFoundError"]
         ELSE IF inputs_dir = "file"
         THEN watch' = [watch EXCEPT !.pc = "raised", !.exc = "NotADirectoryError"]
         ELSE IF ~mkdir_ok
         THEN watch' = [watch EXCEPT !.pc = "raised", !.exc = "PermissionError"]
         ELSE watch' = [watch EXCEPT !.pc = "scan"]
    /\ UNCHANGED <<entry, pc, coreVars, disc, walk, bridge, resolver, api>>

\* _scan_existing_metadata_files: an existing file is handled first
WatchScan ==
    /\ entry = "watcher"
    /\ watch.pc = "scan"
    /\ \E existing_file \in BOOLEAN :
         IF existing_file
         THEN watch' = [watch EXCEPT
                          !.current = [name |-> watch.metadata_filename,
                                       change_type |-> 0, origin |-> "scan"],
                          !.pc = "stability"]
         ELSE watch' = [watch EXCEPT !.pc = "watch"]
    /\ UNCHANGED <<entry, pc, coreVars, disc, walk, bridge, resolver, api>>

\* _handle_metadata_file: the stability check; an unstable file is skipped
WatchCheckStability ==
    /\ entry = "watcher"
    /\ watch.pc = "stability"
    /\ \E m \in Samples :
         LET stable == CheckFileStability(m)
         IN  watch' = [watch EXCEPT
                         !.checked = TRUE,
                         !.samples = m,
                         !.stable = stable,
                         !.outcome = FALSE,
                         !.skipped = IF stable THEN @ ELSE @ + 1,
                         !.pc = IF stable THEN "workflow" ELSE "after_handle"]
    /\ UNCHANGED <<entry, pc, coreVars, disc, walk, bridge, resolver, api>>

\* WatchWorkflow raising the workflow's exception again whatever fail_fast is
WatchWorkflow_AlwaysRaises ==
    /\ entry = "watcher"
    /\ watch.pc = "workflow"
    /\ \E ok \in BOOLEAN :
         IF ok
         THEN watch' = [watch EXCEPT !.outcome = TRUE, !.handled = @ + 1,
                                     !.pc = "after_handle"]
         ELSE watch' = [watch EXCEPT !.failed = @ + 1, !.exc = "workflow_failed",
                                     !.pc = "raised"]
    /\ UNCHANGED <<entry, pc, coreVars, disc, walk, bridge, resolver, api>>

\* _handle_metadata_file: _process_metadata_file runs the workflow on the file;
\* it returns the counts, or raises; the exception is logged (failed counts the
\* log lines) and raised again only under fail_fast (and then once more by the
\* `except Exception` of the watch loop)
WatchWorkflow ==
    /\ entry = "watcher"
    /\ watch.pc = "workflow"
    /\ \E ok \in BOOLEAN :
         IF ok
         THEN watch' = [watch EXCEPT !.outcome = TRUE, !.handled = @ + 1,
                                     !.pc = "after_handle"]
         ELSE IF watch.fail_fast
         THEN watch' = [watch EXCEPT !.failed = @ + 1, !.exc = "workflow_failed",
                                     !.pc = "raised"]
         ELSE watch' = [watch EXCEPT !.outcome = FALSE, !.skipped = @ + 1,
                                     !.failed = @ + 1, !.pc = "after_handle"]
    /\ UNCHANGED <<entry, pc, coreVars, disc, walk, bridge, resolver, api>>

\* WatchAfterHandle leaving in single-shot mode whatever the handling returned
WatchAfterHandle_ExitsAfterAnyFile ==
    /\ entry = "watcher"
    /\ watch.pc = "after_handle"
    /\ IF watch.once
       THEN watch' = [watch EXCEPT !.pc = "returned"]
       ELSE watch' = [watch EXCEPT
                        !.current = NoChange, !.checked = FALSE,
                        !.samples = NoSamples, !.stable = FALSE,
                        !.pc = IF watch.current.origin = "scan"
                               THEN "watch" ELSE "next_change"]
    /\ UNCHANGED <<entry, pc, coreVars, disc, walk, bridge, resolver, api>>

\* `if _handle_metadata_file(...): if once: return`, after the initial scan and
\* in the watch loop
WatchAfterHandle ==
    /\ entry = "watcher"
    /\ watch.pc = "after_handle"
    /\ IF watch.outcome /\ watch.once
       THEN watch' = [watch EXCEPT !.pc = "returned"]
       ELSE watch' = [watch EXCEPT
                        !.current = NoChange, !.checked = FALSE,
                        !.samples = NoSamples, !.stable = FALSE,
                        !.pc = IF watch.current.origin = "scan"
                               THEN "watch" ELSE "next_change"]
    /\ UNCHANGED <<entry, pc, coreVars, disc, walk, bridge, resolver, api>>

\* `for changes in watch(inputs_dir, ...)`: the next set of changes arrives,
\* or watch() fails and the error is logged and raised again
WatchEvents ==
    /\ entry = "watcher"
    /\ watch.pc = "watch"
    /\ \/ /\ watch.batches < MaxBatches
          /\ \E changes \in Batches :
               watch' = [watch EXCEPT !.changes = changes, !.batches = @ + 1,
                                      !.pc = "next_change"]
       \/ watch' = [watch EXCEPT !.exc = "watch_failed", !.pc = "raised"]
    /\ UNCHANGED <<entry, pc, coreVars, disc, walk, bridge, resolver, api>>

\* WatchNextChange without the test of the change type
WatchNextChange_AnyChangeType ==
    /\ entry = "watcher"
    /\ watch.pc = "next_change"
    /\ IF watch.changes = <<>>
       THEN watch' = [watch EXCEPT !.pc = "watch"]
       ELSE LET change == Head(watch.changes)
            IN  IF change.name # watch.metadata_filename
                THEN watch' = [watch EXCEPT !.changes = Tail(@)]
                ELSE watch' = [watch EXCEPT
                                 !.changes = Tail(@),
                                 !.current = [name |-> change.name,
                                              change_type |-> change.change_type,
                                              origin |-> "event"],
                                 !.pc = "stability"]
    /\ UNCHANGED <<entry, pc, coreVars, disc, walk, bridge, resolver, api>>

\* `for change_type, file_path in changes`: other file names and other change
\* types than created (1) and modified (2) are passed over
WatchNextChange ==
    /\ entry = "watcher"
    /\ watch.pc = "next_change"
    /\ IF watch.changes = <<>>
       THEN watch' = [watch EXCEPT !.pc = "watch"]
       ELSE LET change == Head(watch.changes)
            IN  IF change.name # watch.metadata_filename
                THEN watch' = [watch EXCEPT !.changes = Tail(@)]
                ELSE IF change.change_type \notin {1, 2}
                THEN watch' = [watch EXCEPT !.changes = Tail(@)]
                ELSE watch' = [watch EXCEPT
                                 !.changes = Tail(@),
                                 !.current = [name |-> change.name,
                                              change_type |-> change.change_type,
                                              origin |-> "event"],
                                 !.pc = "stability"]
    /\ UNCHANGED <<entry, pc, coreVars, disc, walk, bridge, resolver, api>>

\* Ctrl+C while the watcher waits for changes, sleeps in the stability check or
\* runs the workflow: inside the watch loop `except KeyboardInterrupt` logs it
\* and the function returns; during the handling of the scanned file nothing
\* catches it
WatchInterrupt ==
    /\ entry = "watcher"
    /\ watch.pc \in {"watch", "stability", "workflow"}
    /\ IF watch.current.origin = "scan"
       THEN watch' = [watch EXCEPT !.exc = "KeyboardInterrupt", !.pc = "raised"]
       ELSE watch' = [watch EXCEPT !.interrupted = TRUE, !.pc = "returned"]
    /\ UNCHANGED <<entry, pc, coreVars, disc, walk, bridge, resolver, api>>

InitWatch ==
    /\ entry = "watcher"
    /\ CoreAtRest
    /\ disc = NoDiscovery
    /\ walk = NoWalk
    /\ watch \in {[NoWatch EXCEPT !.once = o, !.fail_fast = ff, !.metadata_filename = f] :
                     o \in BOOLEAN, ff \in BOOLEAN, f \in FileNames}
    /\ bridge = NoBridge
    /\ resolver = NoResolve
    /\ api = NoApiCall

NextWatch ==
    \/ WatchValidate
    \/ WatchScan
    \/ WatchCheckStability
    \/ WatchWorkflow
    \/ WatchAfterHandle
    \/ WatchEvents
    \/ WatchNextChange
    \/ WatchInterrupt

SpecWatch == InitWatch /\ [][NextWatch]_vars

\* ------------------------------------------------------------ AsyncBridge
\* a worker thread calls wait_for_app_ready_sync: it runs no event loop, so
\* asyncio.get_running_loop() raises RuntimeError and the except clause starts
\* asyncio.run(self._app_ready_event.wait()) on a loop of the thread's own
BridgeCall(t) ==
    /\ entry = "bridge"
    /\ bridge.pc[t] = "idle"
    /\ bridge' = [bridge EXCEPT
                    !.pc[t] = "called",
                    !.called_when_set = IF bridge.value THEN @ \cup {t} ELSE @]
    /\ UNCHANGED <<entry, pc, coreVars, disc, walk, watch, resolver, api>>

\* the call made on the thread that runs the bridge's loop: the coroutine is
\* handed to that same loop by run_coroutine_threadsafe and future.result()
\* blocks the thread, so the loop never gets to run it
BridgeCallFromLoop ==
    /\ entry = "bridge"
    /\ bridge.loop_thread = "running"
    /\ bridge' = [bridge EXCEPT !.loop_thread = "blocked"]
    /\ UNCHANGED <<entry, pc, coreVars, disc, walk, watch, resolver, api>>

\* Event.wait() in the thread's loop: `if self._value: return True`
BridgeWaitCheck(t) ==
    /\ entry = "bridge"
    /\ bridge.pc[t] = "called"
    /\ bridge' = [bridge EXCEPT !.pc[t] = IF bridge.value THEN "returned" ELSE "unset"]
    /\ UNCHANGED <<entry, pc, coreVars, disc, walk, watch, resolver, api>>

\* Event.wait(): `fut = self._get_loop().create_future()` binds the event to
\* the first loop that waits on it and raises RuntimeError in any other loop;
\* the future joins the waiters and the coroutine awaits it
BridgeWaitRegister(t) ==
    /\ entry = "bridge"
    /\ bridge.pc[t] = "unset"
    /\ IF bridge.loop \in {0, t}
       THEN bridge' = [bridge EXCEPT !.loop = t, !.waiters = @ \cup {t},
                                     !.pc[t] = "registered"]
       ELSE bridge' = [bridge EXCEPT !.pc[t] = "raised"]
    /\ UNCHANGED <<entry, pc, coreVars, disc, walk, watch, resolver, api>>

\* the thread's loop runs once more: a callback in its ready queue completes
\* the wait and asyncio.run returns; with nothing ready and no timer the loop
\* sleeps in select() without a timeout
BridgeLoopRunOnce(t) ==
    /\ entry = "bridge"
    /\ bridge.pc[t] = "registered"
    /\ IF t \in bridge.ready
       THEN bridge' = [bridge EXCEPT !.pc[t] = "returned", !.waiters = @ \ {t},
                                     !.ready = @ \ {t}]
       ELSE bridge' = [bridge EXCEPT !.pc[t] = "asleep"]
    /\ UNCHANGED <<entry, pc, coreVars, disc, walk, watch, resolver, api>>

\* the asynchronous side sets the event: Event.set() gives every waiting
\* future its result, which queues the wake-up in the future's loop with
\* call_soon; call_soon does not interrupt a select() another thread sleeps in
BridgeSet ==
    /\ entry = "bridge"
    /\ bridge.loop_thread = "running"
    /\ ~bridge.value
    /\ bridge' = [bridge EXCEPT !.value = TRUE, !.ready = @ \cup bridge.waiters]
    /\ UNCHANGED <<entry, pc, coreVars, disc, walk, watch, resolver, api>>

InitBridge ==
    /\ entry = "bridge"
    /\ CoreAtRest
    /\ disc = NoDiscovery
    /\ walk = NoWalk
    /\ watch = NoWatch
    /\ bridge = NoBridge
    /\ resolver = NoResolve
    /\ api = NoApiCall

NextBridge ==
    \/ \E t \in Threads : BridgeCall(t)
    \/ BridgeCallFromLoop
    \/ \E t \in Threads : BridgeWaitCheck(t)
    \/ \E t \in Threads : BridgeWaitRegister(t)
    \/ \E t \in Threads : BridgeLoopRunOnce(t)
    \/ BridgeSet

SpecBridge == InitBridge /\ [][NextBridge]_vars

\* ------------------------------------------- component file resolution
\* the "path" strings of a manifest's files, as sequences of the characters
\* ".", "/" and "a", at most n long
RECURSIVE FileRefs(_)
FileRefs(n) ==
    IF n = 0 THEN {<<>>}
    ELSE FileRefs(n - 1) \cup
         {Append(r, c) : r \in FileRefs(n - 1), c \in {".", "/", "a"}}

\* str.startswith
StartsWith(str, prefix) ==
    Len(str) >= Len(prefix) /\ SubSeq(str, 1, Len(prefix)) = prefix

\* str[n:]
DropFirst(str, n) == SubSeq(str, n + 1, Len(str))

\* str.lstrip("/")
RECURSIVE LStripSep(_)
LStripSep(str) ==
    IF str # <<>> /\ Head(str) = "/" THEN LStripSep(Tail(str)) ELSE str

\* str.split("/") without the empty and the "." segments, as pathlib keeps them
RECURSIVE Segments(_, _)
Segments(str, current) ==
    IF str = <<>>
    THEN IF current \in {<<>>, <<".">>} THEN <<>> ELSE <<current>>
    ELSE IF Head(str) = "/"
    THEN (IF current \in {<<>>, <<".">>} THEN <<>> ELSE <<current>>)
         \o Segments(Tail(str), <<>>)
    ELSE Segments(Tail(str), Append(current, Head(str)))

\* Path(str) on a POSIX system: exactly two leading slashes are kept as "//",
\* one or more than two make the root "/"
PurePath(str) ==
    LET stripped == LStripSep(str)
        slashes == Len(str) - Len(stripped)
    IN  [root |-> IF slashes = 0 THEN "" ELSE IF slashes = 2 THEN "//" ELSE "/",
         parts |-> Segments(stripped, <<>>)]

\* base / str: a rooted right-hand side replaces the base
JoinPath(base, str) ==
    LET other == PurePath(str)
    IN  IF other.root # "" THEN other
        ELSE [root |-> base.root, parts |-> base.parts \o other.parts]

\* path.parent
Parent(path) ==
    IF path.parts = <<>> THEN path
    ELSE [path EXCEPT !.parts = SubSeq(@, 1, Len(@) - 1)]

\* the manifest files the function is called with, each with what resolve()
\* makes of it: /r/h/m, /r/m, and the symbolic link /r/l to /s/m
ManifestFiles ==
    {[path |-> [root |-> "/", parts |-> <<<<"r">>, <<"h">>, <<"m">>>>],
      resolved |-> [root |-> "/", parts |-> <<<<"r">>, <<"h">>, <<"m">>>>]],
     [path |-> [root |-> "/", parts |-> <<<<"r">>, <<"m">>>>],
      resolved |-> [root |-> "/", parts |-> <<<<"r">>, <<"m">>>>]],
     [path |-> [root |-> "/", parts |-> <<<<"r">>, <<"l">>>>],
      resolved |-> [root |-> "/", parts |-> <<<<"s">>, <<"m">>>>]]}

\* resolve_component_file_path(manifest_file, file_path, repo_dir)
ResolveComponentFilePath(manifest_file, file_path, repo_dir) ==
    IF StartsWith(file_path, <<".", "/">>)
    THEN JoinPath(Parent(manifest_file.resolved), DropFirst(file_path, 2))
    ELSE JoinPath(repo_dir, file_path)

\* a caller hands over a manifest file, a reference and the repository root /r;
\* the referenced file is there or not
ResolveCall ==
    /\ entry = "resolver"
    /\ resolver.pc = "start"
    /\ \E m \in ManifestFiles, f \in FileRefs(MaxRefLen), e \in BOOLEAN :
         resolver' = [resolver EXCEPT !.manifest_file = m.path, !.file_path = f,
                                      !.repo_dir = [root |-> "/", parts |-> <<<<"r">>>>],
                                      !.exists = e, !.pc = "called"]
    /\ UNCHANGED <<entry, pc, coreVars, disc, walk, watch, bridge, api>>

\* the function body
ResolveReturn ==
    /\ entry = "resolver"
    /\ resolver.pc = "called"
    /\ \E m \in ManifestFiles :
         /\ m.path = resolver.manifest_file
         /\ resolver' = [resolver EXCEPT
                           !.result = ResolveComponentFilePath(m, resolver.file_path,
                                                               resolver.repo_dir),
                           !.pc = "returned"]
    /\ UNCHANGED <<entry, pc, coreVars, disc, walk, watch, bridge, api>>

InitResolve ==
    /\ entry = "resolver"
    /\ CoreAtRest
    /\ disc = NoDiscovery
    /\ walk = NoWalk
    /\ watch = NoWatch
    /\ bridge = NoBridge
    /\ resolver = NoResolve
    /\ api = NoApiCall

NextResolve ==
    \/ ResolveCall
    \/ ResolveReturn

SpecResolve == InitResolve /\ [][NextResolve]_vars

\* ----------------------------------------------------------- API layer
\* exceptions.py: the four error types of the API
ApiErrors ==
    {"ApiInputValueError", "ApiFileNotFoundError", "ApiValidationError", "ApiProcessingError"}

\* the exception classes the steps of a run raise, each with its base class
ExceptionBase ==
    [ValueError |-> "Exception", JSONDecodeError |-> "ValueError",
     OSError |-> "Exception", FileNotFoundError |-> "OSError",
     RuntimeError |-> "Exception", CalledProcessError |-> "Exception",
     ValidationError |-> "Exception", HTTPError |-> "Exception",
     PluginError |-> "Exception",
     HornetFlowError |-> "Exception",
     ApiInputValueError |-> "HornetFlowError", ApiFileNotFoundError |-> "HornetFlowError",
     ApiValidationError |-> "HornetFlowError", ApiProcessingError |-> "HornetFlowError"]

\* isinstance(e, class), for e of class c
RECURSIVE IsInstance(_, _)
IsInstance(c, class) ==
    IF c = class THEN TRUE
    ELSE IF c \in DOMAIN ExceptionBase THEN IsInstance(ExceptionBase[c], class)
    ELSE FALSE

\* the steps a call goes through: run_workflow loads the metadata when a
\* metadata file is given and clones when no repo_path is; CadAPI.load always
\* passes a repo_path; ManifestAPI.process starts at the discovery
ApiSteps(fn, has_metadata_file, has_repo_path) ==
    IF fn = "ManifestAPI.process"
    THEN <<"discovery", "schema", "backend_lookup", "component_processing">>
    ELSE <<"input_validation">>
         \o (IF fn = "WorkflowAPI.run" /\ has_metadata_file THEN <<"metadata_load">> ELSE <<>>)
         \o (IF fn = "WorkflowAPI.run" /\ ~has_repo_path THEN <<"clone">> ELSE <<>>)
         \o <<"discovery", "schema", "backend_lookup", "component_processing">>

\* what each step raises when it fails
StepRaises(fn, step) ==
    IF step = "input_validation" THEN {"ValueError"}
    ELSE IF step = "metadata_load" THEN {"FileNotFoundError", "JSONDecodeError", "ValueError"}
    ELSE IF step = "clone" THEN {"ValueError", "CalledProcessError"}
    ELSE IF step = "discovery"
    THEN (IF fn = "ManifestAPI.process" THEN {"ApiFileNotFoundError"}
          ELSE {"FileNotFoundError"})
    ELSE IF step = "schema"
    THEN {"FileNotFoundError", "HTTPError", "ValidationError", "JSONDecodeError"}
    ELSE IF step = "backend_lookup" THEN {"ValueError"}
    ELSE {"FileNotFoundError", "RuntimeError", "PluginError"}

\* the except clauses between the step and the caller of the API function, in
\* the order Python tries them: <<class caught, class raised instead>>
ExceptClauses(fn, step) ==
    IF fn = "WorkflowAPI.run"
    THEN <<<<"ValueError", "ApiInputValueError">>,
           <<"FileNotFoundError", "ApiFileNotFoundError">>,
           <<"RuntimeError", "ApiProcessingError">>,
           <<"CalledProcessError", "ApiProcessingError">>>>
    ELSE IF fn = "CadAPI.load"
    THEN <<<<"ValueError", "ApiInputValueError">>,
           <<"FileNotFoundError", "ApiFileNotFoundError">>,
           <<"RuntimeError", "ApiProcessingError">>>>
    ELSE IF step = "schema"
    THEN <<<<"ValidationError", "ApiValidationError">>>>
    ELSE IF step \in {"backend_lookup", "component_processing"}
    THEN <<<<"FileNotFoundError", "ApiFileNotFoundError">>,
           <<"RuntimeError", "ApiProcessingError">>,
           <<"ValueError", "ApiValidationError">>>>
    ELSE <<>>

\* the first clause that matches decides; without one the exception goes on
\* as it is
RECURSIVE Translate(_, _)
Translate(clauses, c) ==
    IF clauses = <<>> THEN c
    ELSE IF IsInstance(c, Head(clauses)[1]) THEN Head(clauses)[2]
    ELSE Translate(Tail(clauses), c)

\* a failed schema validation that does not end the call: without fail_fast
\* run_workflow passes over any Exception, ManifestAPI.process over
\* ApiValidationError only
PassedOver(fn, step, c, fail_fast) ==
    /\ step = "schema"
    /\ ~fail_fast
    /\ IF fn = "ManifestAPI.process"
       THEN Translate(ExceptClauses(fn, step), c) = "ApiValidationError"
       ELSE IsInstance(c, "Exception")

\* a caller calls one of the three API functions
ApiCall ==
    /\ entry = "api"
    /\ api.pc = "start"
    /\ \E fn \in {"WorkflowAPI.run", "CadAPI.load", "ManifestAPI.process"},
          ff \in BOOLEAN, has_metadata_file \in BOOLEAN, has_repo_path \in BOOLEAN :
         api' = [api EXCEPT !.fn = fn, !.fail_fast = ff,
                            !.steps = ApiSteps(fn, has_metadata_file, has_repo_path),
                            !.pc = "running"]
    /\ UNCHANGED <<entry, pc, coreVars, disc, walk, watch, bridge, resolver>>

\* the next step of the run passes, fails and is passed over, or raises; after
\* the last step the function returns the counts
ApiStep ==
    /\ entry = "api"
    /\ api.pc = "running"
    /\ IF api.steps = <<>>
       THEN api' = [api EXCEPT !.pc = "returned"]
       ELSE LET step == Head(api.steps)
            IN  \/ api' = [api EXCEPT !.steps = Tail(@), !.step = step]
                \/ \E c \in StepRaises(api.fn, step) :
                     IF PassedOver(api.fn, step, c, api.fail_fast)
                     THEN api' = [api EXCEPT !.steps = Tail(@), !.step = step]
                     ELSE api' = [api EXCEPT !.step = step, !.raised = c, !.pc = "except"]
    /\ UNCHANGED <<entry, pc, coreVars, disc, walk, watch, bridge, resolver>>

\* the exception meets the except clauses of the API function and leaves it
ApiExcept ==
    /\ entry = "api"
    /\ api.pc = "except"
    /\ api' = [api EXCEPT
                 !.escaped = Translate(ExceptClauses(api.fn, api.step), api.raised),
                 !.pc = "raised"]
    /\ UNCHANGED <<entry, pc, coreVars, disc, walk, watch, bridge, resolver>>

InitApi ==
    /\ entry = "api"
    /\ CoreAtRest
    /\ disc = NoDiscovery
    /\ walk = NoWalk
    /\ watch = NoWatch
    /\ bridge = NoBridge
    /\ resolver = NoResolve
    /\ api = NoApiCall

NextApi ==
    \/ ApiCall
    \/ ApiStep
    \/ ApiExcept

SpecApi == InitApi /\ [][NextApi]_vars

\* ------------------------------------------------------------ specification
Init ==
    /\ entry \in {"dispatcher", "processor", "workflow"}
    /\ pc = "idle"
    /\ exc = None
    /\ result = NoResult
    /\ log = <<>>
    /\ callbacks = EmptyCallbacks
    /\ trig = NoTrigger
    /\ plugin_name \in (IF entry = "processor" THEN PluginNames ELSE {None})
    /\ plugin_instance = 0
    /\ frame = NoFrame
    /\ pm_ret = None
    /\ instances = 0
    /\ pm_calls = 0
    /\ wf = NoWorkflow
    /\ repo_url = None
    /\ repo_commit = "main"
    /\ repo_path = None
    /\ release = None
    /\ success_count = 0
    /\ total_count = 0
    /\ workflow_succeeded = FALSE
    /\ workflow_exception = None
    /\ cad_manifest = FALSE
    /\ sim_manifest = FALSE
    /\ validation_errors = <<>>
    /\ temp_dir = None
    /\ completed_kwargs = NoKwargs
    /\ disc = NoDiscovery
    /\ walk = NoWalk
    /\ watch = NoWatch
    /\ bridge = NoBridge
    /\ resolver = NoResolve
    /\ api = NoApiCall

Next ==
    \/ \E e \in Events, h \in Handlers : Register(e, h)
    \/ \E e \in Events, kw \in KwargBags : CallTrigger(e, kw)
    \/ HandlerCall
    \/ TriggerReturn
    \/ \E ff \in BOOLEAN, tf \in TypeFilters, nf \in NameFilters : CallProcessManifest(ff, tf, nf)
    \/ PmGetPlugin
    \/ PmInstantiate
    \/ PmSetup
    \/ PmRead
    \/ PmNextComponent
    \/ PmWalkDone
    \/ PmLoad
    \/ PmFinally
    \/ \E meta \in BOOLEAN, url \in {None, "repo_url"}, commit \in {"main", "v1"},
          path \in {None, "repo_path"}, ff \in BOOLEAN, pl \in PluginNames,
          fp \in FilterPairs :
            \/ CallRunWorkflow(meta, url, commit, path, ff, pl, fp[1], fp[2], FALSE, EmptyCallbacks)
            \/ \E cbs \in SampleDispatchers :
                 CallRunWorkflow(meta, url, commit, path, ff, pl, fp[1], fp[2], TRUE, cbs)
    \/ WfValidate
    \/ WfMetadata
    \/ WfClone
    \/ WfRepositoryReady
    \/ WfFind
    \/ WfValidateCad
    \/ WfValidateCadExcept
    \/ WfValidateSim
    \/ WfValidateSimExcept
    \/ WfManifestsReady
    \/ WfProcess
    \/ WfAfterProcess
    \/ WfExcept
    \/ WfFinally
    \/ WfReturn

Spec == Init /\ [][Next]_vars

\* ------------------------------------------------------------- properties
\* the part of the log that belongs to the latest process_manifest call
CallLog ==
    LET p == LastPos(log, {"process_manifest"})
    IN  IF p = 0 THEN <<>> ELSE SubSeq(log, p, Len(log))

\* process_manifest has just returned or raised to its caller
PmExited == pm_calls > 0 /\ pc = pm_ret

\* the latest process_manifest call instantiated the backend
Instantiated == Count(CallLog, {"instantiate"}) > 0

Loads == Count(CallLog, {"load"})

Teardowns == Count(CallLog, {"teardown"})

\* position in the log of the trigger of event e, 0 when it was not triggered
TrigPos(e) ==
    IF \E i \in 1..Len(log) : log[i].op = "trigger" /\ log[i].ev = e
    THEN CHOOSE i \in 1..Len(log) : log[i].op = "trigger" /\ log[i].ev = e
    ELSE 0

TrigCount(e) == Cardinality({i \in 1..Len(log) : log[i].op = "trigger" /\ log[i].ev = e})

\* C1: in every process_manifest call that instantiates the backend, teardown is
\* invoked exactly once, on that backend instance, and after every load_component
\* call of the call, whether the call returns counts or raises.
C1_TeardownExactlyOnce ==
    LET c == CallLog
    IN  /\ Teardowns <= 1
        /\ Teardowns = 1 => LastPos(c, {"load"}) < FirstPos(c, {"teardown"})
        /\ (PmExited /\ Instantiated) =>
              /\ Teardowns = 1
              /\ c[FirstPos(c, {"teardown"})].inst = c[FirstPos(c, {"instantiate"})].inst

\* C1 witness: a call that loaded two components, raised from the second
\* load_component and tore the backend down once
C1_Witness ==
    /\ PmExited
    /\ exc = "load_raised"
    /\ Loads = 2
    /\ Teardowns = 1

\* C3 as stated: every process_manifest call calls setup exactly once, before the
\* first load_component; no load_component after a failed setup or after teardown.
C3_SetupExactlyOnceEveryCall ==
    LET c == CallLog
    IN  /\ PmExited => Count(c, {"setup"}) = 1
        /\ Loads > 0 => (FirstPos(c, {"setup"}) > 0 /\ FirstPos(c, {"setup"}) < FirstPos(c, {"load"}))
        /\ exc = "setup_failed" => Loads = 0
        /\ Teardowns > 0 => LastPos(c, {"load"}) < FirstPos(c, {"teardown"})

\* C3 amended: a process_manifest call that instantiates the backend calls setup
\* exactly once, before the first load_component; a call whose backend lookup or
\* instantiation fails never calls setup; no load_component after a failed setup
\* or after teardown.
C3_SetupOnceWhenInstantiated ==
    LET c == CallLog
    IN  /\ Count(c, {"setup"}) <= 1
        /\ (PmExited /\ Instantiated) => Count(c, {"setup"}) = 1
        /\ ~Instantiated => Count(c, {"setup"}) = 0
        /\ Loads > 0 => (FirstPos(c, {"setup"}) > 0 /\ FirstPos(c, {"setup"}) < FirstPos(c, {"load"}))
        /\ (PmExited /\ exc = "setup_failed") => Loads = 0
        /\ Teardowns > 0 => LastPos(c, {"load"}) < FirstPos(c, {"teardown"})

\* C3 witness: setup raised, nothing was loaded, the call has raised
C3_Witness ==
    /\ PmExited
    /\ exc = "setup_failed"
    /\ Count(CallLog, {"setup"}) = 1
    /\ Loads = 0

\* the component being handled references a file that does not exist
CurrentMissing == Len(frame.component_files) < frame.component.nfiles

\* C4: with fail_fast, process_manifest raises at the first filter-surviving
\* component that references a missing file or whose load_component returns false
\* or raises: load_component is not invoked for a component with a missing file,
\* and for no component after the failing one.
C4_FailFastStopsAtFirstFailure ==
    (pm_calls > 0 /\ frame.fail_fast) =>
        /\ frame.failed <= 1
        /\ pc = "pm_load" => (~CurrentMissing /\ Loads = frame.survivors - 1)
        /\ pc = "pm_walk" => (frame.failed = 0 /\ Loads = frame.survivors)
        /\ frame.failed = 1 =>
              /\ pc \notin {"pm_walk", "pm_load"}
              /\ exc \in {"missing_file", "load_returned_false", "load_raised", "teardown_failed"}
              /\ ~result.returned
              /\ Loads = IF CurrentMissing THEN frame.survivors - 1 ELSE frame.survivors
        /\ (PmExited /\ exc \in {"missing_file", "load_returned_false", "load_raised"}) =>
              frame.failed = 1

\* C4 witness: the second surviving component references a missing file; the
\* call raised and load_component was invoked for the first component only
C4_Witness ==
    /\ PmExited
    /\ frame.fail_fast
    /\ exc = "missing_file"
    /\ frame.survivors = 2
    /\ Loads = 1

\* C2 as stated: a run_workflow run on a repository with a CAD manifest invokes
\* teardown exactly once, also when schema validation raised.
C2_TeardownOnceInEveryCadRun ==
    (entry = "workflow" /\ pc = "done" /\ cad_manifest) => Count(log, {"teardown"}) = 1

\* C2 amended: a run_workflow run on a repository with a CAD manifest invokes
\* teardown at most once: exactly once when the backend was instantiated, whether
\* setup or a load_component raised or not, and never when the run ended before
\* the backend was instantiated (schema validation raised under fail_fast, the
\* backend name is not registered).
C2_TeardownOnceIffInstantiated ==
    entry = "workflow" =>
        /\ Count(log, {"teardown"}) <= 1
        /\ Count(log, {"instantiate"}) <= 1
        /\ (pc = "done" /\ cad_manifest) =>
              /\ Count(log, {"teardown"}) = Count(log, {"instantiate"})
              /\ exc \in {"setup_failed", "manifest_unreadable", "missing_file",
                          "load_returned_false", "load_raised", "teardown_failed"}
                    => Count(log, {"teardown"}) = 1
              /\ exc \in SchemaFailures \cup {"plugin_not_found"}
                    => Count(log, {"teardown"}) = 0

\* C2 witness: schema validation failed without fail_fast, then setup raised, and
\* the run ended with one teardown
C2_Witness ==
    /\ entry = "workflow"
    /\ pc = "done"
    /\ cad_manifest
    /\ validation_errors # <<>>
    /\ exc = "setup_failed"
    /\ Count(log, {"teardown"}) = 1

\* C5: with fail_fast=False run_workflow does not abort because a manifest failed
\* schema validation or because load_component returned false or raised; it
\* returns the aggregate counts.
C5_NoFailFastRunNeverAborts ==
    (entry = "workflow" /\ pc = "done" /\ ~wf.fail_fast) =>
        exc \notin SchemaFailures \cup {"load_returned_false", "load_raised"}

EventRank(e) ==
    CASE e = "workflow_started" -> 1
      [] e = "repository_ready" -> 2
      [] e = "manifests_ready" -> 3
      [] e = "workflow_completed" -> 4

Triggered == SelectOp(log, {"trigger"})

\* C7: in a run_workflow run the events are triggered at most once each and in the
\* order started, repository_ready, manifests_ready, completed; started precedes
\* the metadata read and the clone; repository_ready comes after started and with
\* a local repository path; manifests_ready after repository_ready; nothing
\* after completed.
C7_EventOrder ==
    entry = "workflow" =>
        /\ \A i \in 1..Len(Triggered), j \in 1..Len(Triggered) :
              i < j => EventRank(Triggered[i].ev) < EventRank(Triggered[j].ev)
        /\ \A i \in 1..Len(log) :
              (wf.event_dispatcher /\ log[i].op \in {"load_metadata", "clone"}) =>
                  TrigPos("workflow_started") \in 1..(i - 1)
        /\ TrigPos("repository_ready") > 0 =>
              /\ TrigPos("workflow_started") \in 1..(TrigPos("repository_ready") - 1)
              /\ repo_path # None
        /\ TrigPos("manifests_ready") > 0 =>
              TrigPos("repository_ready") \in 1..(TrigPos("manifests_ready") - 1)

\* C7 witness: a run that read the metadata, cloned, and triggered all four events
C7_Witness ==
    /\ entry = "workflow"
    /\ pc = "done"
    /\ Len(Triggered) = 4
    /\ Count(log, {"load_metadata"}) = 1
    /\ Count(log, {"clone"}) = 1

\* C8 as stated: every run_workflow call given a dispatcher triggers completed
\* exactly once before it returns or raises.
C8_CompletedAlwaysFired ==
    (entry = "workflow" /\ pc = "done" /\ wf.event_dispatcher) =>
        TrigCount("workflow_completed") = 1

\* C8 amended: every run_workflow call given a dispatcher that passes the input
\* validation triggers completed exactly once, and calls all its handlers, before
\* it returns or raises; a call rejected by the input validation triggers nothing.
C8_CompletedFiredOnceAfterValidation ==
    (entry = "workflow" /\ wf.event_dispatcher) =>
        /\ TrigCount("workflow_completed") <= 1
        /\ pc = "done" =>
              IF exc = "invalid_input"
              THEN Len(Triggered) = 0
              ELSE /\ TrigCount("workflow_completed") = 1
                   /\ TrigCount("workflow_started") = 1
                   /\ Cardinality({i \in 1..Len(log) : log[i].op = "handler"
                                                        /\ log[i].ev = "workflow_completed"})
                        = Len(callbacks["workflow_completed"])

\* C8 witness: the clone failed and the run raised after triggering completed
C8_Witness ==
    /\ entry = "workflow"
    /\ pc = "done"
    /\ wf.event_dispatcher
    /\ exc = "clone_failed"
    /\ TrigCount("workflow_completed") = 1

\* C9: when trigger returns, every callback registered for the event has been
\* invoked, once per registration, in registration order and with the kwargs of
\* the trigger, whichever of them raised; trigger returns normally to its caller.
C9_TriggerCallsEveryHandler ==
    [][(pc = "trigger" /\ pc' # "trigger") =>
          LET cbs == callbacks[trig.event]
              p == LastPos(log, {"trigger"})
          IN  /\ Len(log) - p = Len(cbs)
              /\ \A k \in 1..Len(cbs) :
                    log[p + k] = Ev("handler", trig.event, cbs[k], trig.kwargs, 0)
              /\ pc' = trig.ret
              /\ exc' = exc]_vars

\* C9 witness: two callbacks on the triggered event, both raised, both were invoked
C9_Witness ==
    /\ entry = "dispatcher"
    /\ pc = "trigger"
    /\ callbacks[trig.event] = <<"h1", "h2">>
    /\ trig.idx = 3
    /\ trig.raised = 2
    /\ log[Len(log) - 1].h = "h1"
    /\ log[Len(log)].h = "h2"

\* C10: manifests_ready is triggered after the discovery and after the schema
\* validation of every manifest found; all its handlers have been called before
\* the backend is instantiated or set up.
C10_ManifestsReadyBeforeBackend ==
    entry = "workflow" =>
        LET m == TrigPos("manifests_ready")
            cbs == callbacks["manifests_ready"]
            backend == {"instantiate", "setup"}
        IN  /\ m > 0 =>
                  /\ FirstPos(log, {"find_manifests"}) \in 1..(m - 1)
                  /\ cad_manifest => FirstPos(log, {"validate_cad"}) \in 1..(m - 1)
                  /\ sim_manifest => FirstPos(log, {"validate_sim"}) \in 1..(m - 1)
            /\ (wf.event_dispatcher /\ Count(log, backend) > 0) =>
                  /\ m > 0
                  /\ m + Len(cbs) < FirstPos(log, backend)
                  /\ \A k \in 1..Len(cbs) :
                        log[m + k] = Ev("handler", "manifests_ready", cbs[k], "manifests_ready", 0)
            /\ (pc = "trigger" /\ trig.event = "manifests_ready") => Count(log, backend) = 0

\* C10 witness: both manifests found and validated, two manifests_ready handlers
\* called, then the backend instantiated
C10_Witness ==
    /\ entry = "workflow"
    /\ wf.event_dispatcher
    /\ cad_manifest
    /\ sim_manifest
    /\ Len(callbacks["manifests_ready"]) = 2
    /\ TrigPos("manifests_ready") > 0
    /\ Count(log, {"instantiate"}) = 1

\* C11: when run_workflow clones a remote, an exception raised by the clone or by
\* any later step of the run deletes the working directory before it propagates;
\* after a successful run the directory still exists.
C11_CloneDirDeletedOnAnyFailure ==
    (entry = "workflow" /\ pc = "done" /\ Count(log, {"clone"}) = 1) =>
        temp_dir = IF exc = None THEN "exists" ELSE "deleted"

\* C12: a run_workflow call given repo_path never clones, never allocates (so
\* never deletes) a working directory and keeps using repo_path, whether it
\* succeeds or fails, also when a repo_url or a metadata file comes with it.
C12_RepoPathNeverCloned ==
    (entry = "workflow" /\ wf.called /\ wf.repo_path # None) =>
        /\ Count(log, {"clone"}) = 0
        /\ temp_dir = None
        /\ repo_path = wf.repo_path

\* C12 witness: repo_path given together with a metadata file; the metadata was
\* read, the run failed later, nothing was cloned or deleted
C12_Witness ==
    /\ entry = "workflow"
    /\ pc = "done"
    /\ wf.repo_path # None
    /\ wf.metadata_file_path
    /\ repo_url = "release.url"
    /\ exc = "load_raised"
    /\ temp_dir = None

\* C13: run_workflow rejects the call exactly when a metadata file comes with a
\* repo url or a non-default commit, or when none of metadata file, repo url and
\* repo path is given; a rejected call triggers no event, reads no metadata,
\* starts no clone and creates no backend; any other call passes the validation.
C13_InputValidation ==
    (entry = "workflow" /\ wf.called /\ pc # "wf_validate") =>
        LET combined == wf.metadata_file_path
                        /\ (wf.repo_url # None \/ wf.repo_commit # "main")
            nothing == ~wf.metadata_file_path /\ wf.repo_url = None /\ wf.repo_path = None
        IN  /\ exc = "invalid_input" <=> (combined \/ nothing)
            /\ exc = "invalid_input" =>
                  /\ pc = "done"
                  /\ log = <<Step("run_workflow")>>
                  /\ release = None
                  /\ temp_dir = None
                  /\ instances = 0
            /\ (exc # "invalid_input" /\ wf.event_dispatcher) =>
                  TrigPos("workflow_started") = 2

\* C13 witness: a metadata file with a non-default commit, handed in with a
\* dispatcher, was rejected
C13_Witness ==
    /\ entry = "workflow"
    /\ pc = "done"
    /\ exc = "invalid_input"
    /\ wf.metadata_file_path
    /\ wf.repo_url = None
    /\ wf.repo_commit = "v1"
    /\ wf.event_dispatcher

\* C14: process_manifest returns total_count equal to the number of components
\* that pass the type and name filters; a filtered-out component is not counted.
C14_TotalCountsSurvivors ==
    (PmExited /\ result.returned) => result.total_count = frame.survivors

\* the load_component calls of the latest process_manifest call that returned true
TrueLoads ==
    Cardinality({i \in 1..Len(CallLog) : CallLog[i].op = "load" /\ CallLog[i].ret = "true"})

\* C15: at every step of component processing 0 <= success_count <= total_count
\* and success_count is the number of load_component calls of the run that
\* returned true; the same holds of the pair process_manifest returns.
C15_CountsInvariant ==
    pm_calls > 0 =>
        /\ 0 <= frame.success_count
        /\ frame.success_count <= frame.total_count
        /\ frame.success_count = TrueLoads
        /\ result.returned =>
              /\ 0 <= result.success_count
              /\ result.success_count <= result.total_count
              /\ result.success_count = TrueLoads

\* C15 witness: two components loaded, one load_component returned true and one
\* returned false; the pair (1, 2) was returned
C15_Witness ==
    /\ PmExited
    /\ result.returned
    /\ Loads = 2
    /\ TrueLoads = 1
    /\ \E i \in 1..Len(CallLog) : CallLog[i].op = "load" /\ CallLog[i].ret = "false"
    /\ result.success_count = 1
    /\ result.total_count = 2

\* the i-th entry of the latest call's log is the "Missing file" error
MissingFileError(i) == CallLog[i].op = "logger.error" /\ CallLog[i].kw = "Missing file"

\* C16: without fail_fast and with a backend whose load_component succeeds
\* whenever it is called, when exactly one of the N filter-surviving components
\* references a missing file, process_manifest returns total_count = N and
\* success_count = N - 1 and exactly one error was recorded.
C16_MissingFileNotASuccess ==
    ( /\ PmExited
      /\ ~frame.fail_fast
      /\ result.returned
      /\ frame.survivors = frame.total_count
      /\ Cardinality({i \in 1..Len(CallLog) : MissingFileError(i)}) = 1
      /\ TrueLoads = Loads )
    => /\ result.total_count = frame.survivors
       /\ result.success_count = frame.survivors - 1
       /\ Count(CallLog, {"logger.error"}) = 1

C18_LoadCallAcceptedByEveryBackend ==
    /\ \A i \in 1..Len(log) :
          log[i].op = "load" =>
              \A b \in PluginRegistry : KeywordsBind(log[i].keywords, LoadComponentParams(b))
    /\ (PmExited /\ result.returned /\ TrueLoads = Loads) =>
          result.success_count = frame.survivors

\* C19: a run without a backend name uses the default backend: the lookup does
\* not fail for lack of a name.
C19_DefaultBackendUsed ==
    (pm_calls > 0 /\ plugin_name = None) => exc # "plugin_not_found"

\* a backend name was requested and no plugin is registered under it
UnknownBackendRequested == wf.plugin \notin PluginRegistry \cup {None}

BackendCalls == Count(log, {"instantiate", "setup", "load"})

C21_MissingSchemaAlwaysFatal ==
    [][(/\ pc \in {"wf_validate_cad_except", "wf_validate_sim_except"}
        /\ exc = "schema_field_missing")
       => (/\ pc' = "wf_except"
           /\ exc' = exc
           /\ validation_errors' = validation_errors
           /\ BackendCalls = 0)]_vars

\* C23: the backend is only ever invoked on the CAD manifest: a run that found no
\* CAD manifest never enters process_manifest, never reads or walks a manifest
\* and never instantiates or calls a backend; the SIM manifest it found is
\* schema-validated, and when the run gets through it has triggered
\* manifests_ready (on the dispatcher it was given) and returns (0, 0).
C23_BackendOnlyOnCad ==
    (entry = "workflow" /\ ~cad_manifest) =>
        /\ pm_calls = 0
        /\ instances = 0
        /\ BackendCalls = 0
        /\ Count(log, {"process_manifest", "read_manifest", "teardown"}) = 0
        /\ (sim_manifest /\ pc = "done" /\ exc = None) =>
              /\ Count(log, {"validate_sim"}) = 1
              /\ wf.event_dispatcher => TrigCount("manifests_ready") = 1
              /\ result = [returned |-> TRUE, success_count |-> 0, total_count |-> 0]

C23_Witness ==
    /\ entry = "workflow"
    /\ pc = "done"
    /\ exc = None
    /\ ~cad_manifest
    /\ sim_manifest
    /\ wf.event_dispatcher
    /\ TrigCount("manifests_ready") = 1
    /\ Count(log, {"validate_sim"}) = 1
    /\ result = [returned |-> TRUE, success_count |-> 0, total_count |-> 0]
    /\ BackendCalls = 0

\* some manifest file lies at one of the two locations discovery knows
ManifestOnDisk(r) ==
    "file" \in {r.hornet_cad, r.hornet_sim, r.root_cad, r.root_sim}

\* C22: discovery searches .hornet first and falls back to the repository root:
\* whenever cad_manifest.json or sim_manifest.json exists as a file under
\* .hornet/ or at the root, find_hornet_manifests returns a manifest; it returns
\* (None, None) only when neither location holds either file.
C22_FallsBackToRoot ==
    (entry = "discovery" /\ disc.returned) =>
        ((disc.cad_manifest = None /\ disc.sim_manifest = None)
            <=> ~ManifestOnDisk(disc.repo))

\* the dictionary at an index path of the manifest: <<2, 1>> is the first child
\* of the second top-level component
RECURSIVE NodeAt(_, _)
NodeAt(forest, p) ==
    IF Len(p) = 1 THEN forest[p[1]] ELSE NodeAt(forest[p[1]].components, Tail(p))

\* the index paths of all the dictionaries of the manifest
RECURSIVE NodePathsFrom(_, _)
NodePathsFrom(forest, prefix) ==
    UNION {{Append(prefix, k)} \cup NodePathsFrom(forest[k].components, Append(prefix, k)) :
              k \in 1..Len(forest)}

NodePaths(forest) == NodePathsFrom(forest, <<>>)

\* the recursively computed count: 1 + the counts of the children, summed
RECURSIVE ComponentCount(_)
ComponentCount(forest) ==
    IF forest = <<>> THEN 0
    ELSE 1 + ComponentCount(Head(forest).components) + ComponentCount(Tail(forest))

\* p is a proper ancestor of q
IsAncestor(p, q) == Len(p) < Len(q) /\ SubSeq(q, 1, Len(p)) = p

\* p comes before q in depth-first pre-order: an ancestor before its
\* descendants, and otherwise the earlier sibling's subtree first
PreOrderBefore(p, q) ==
    LET differ == {k \in 1..Len(p) : k <= Len(q) /\ p[k] # q[k]}
    IN  IF differ = {}
        THEN Len(p) < Len(q)
        ELSE LET k == CHOOSE d \in differ : \A e \in differ : d <= e
             IN  p[k] < q[k]

\* C24: walk_manifest_components yields every component of the manifest tree
\* exactly once, in depth-first pre-order (a component before all of its
\* descendants, siblings in manifest order); the number of yielded components
\* equals the recursively computed count.
C24_PreOrderExactlyOnce ==
    entry = "walker" =>
        /\ \A i \in 1..Len(walk.yielded) :
              /\ walk.positions[i] \in NodePaths(walk.manifest_data)
              /\ walk.yielded[i].id = NodeAt(walk.manifest_data, walk.positions[i]).id
              /\ walk.yielded[i].type = NodeAt(walk.manifest_data, walk.positions[i]).type
              /\ \A j \in (i + 1)..Len(walk.yielded) :
                    PreOrderBefore(walk.positions[i], walk.positions[j])
        /\ walk.pc = "done" =>
              /\ {walk.positions[i] : i \in 1..Len(walk.yielded)} = NodePaths(walk.manifest_data)
              /\ Len(walk.yielded) = ComponentCount(walk.manifest_data)
              /\ walk.total_count = ComponentCount(walk.manifest_data)

\* a finished walk of a manifest with a nested component followed by a sibling
C24_Witness ==
    /\ entry = "walker"
    /\ walk.pc = "done"
    /\ walk.positions = <<<<1>>, <<1, 1>>, <<2>>>>
    /\ Len(walk.yielded) = 3

\* C25: every component yielded at nesting depth d carries an ancestor path of
\* length d whose entries are the ids of its proper ancestors from the root down
\* to its parent, and it still does at every later point of the walk.
C25_AncestorPath ==
    entry = "walker" =>
        \A i \in 1..Len(walk.yielded) :
            LET p == walk.positions[i]
                path == walk.yielded[i].parent_path
            IN  /\ Len(path) = Len(p) - 1
                /\ \A k \in 1..(Len(p) - 1) :
                      path[k] = NodeAt(walk.manifest_data, SubSeq(p, 1, k)).id

\* a walk that yielded a component two levels down whose ancestors have
\* different ids, and then ran to its end
C25_Witness ==
    /\ entry = "walker"
    /\ walk.pc = "done"
    /\ \E i \in 1..Len(walk.yielded) :
          /\ Len(walk.positions[i]) = 3
          /\ walk.yielded[i].parent_path = <<"Asm", "b">>

\* name_filter occurs in the id when case is ignored: "a" does in "Asm", not in "b"
NameMatches(id, nf) == <<id, nf>> \in {<<"Asm", "a">>}

C27_SingleShotAndContinuous ==
    entry = "watcher" =>
        /\ (watch.once /\ watch.pc = "returned" /\ ~watch.interrupted) =>
              (watch.handled = 1 /\ watch.outcome)
        /\ (watch.once /\ watch.handled > 0) =>
              (watch.handled = 1 /\ watch.outcome /\ watch.pc \in {"after_handle", "returned"})
        /\ (~watch.once /\ watch.pc = "returned") => watch.interrupted

\* single-shot mode: the scanned or an earlier file was skipped, the watcher
\* went on, and returned after the file it then handled
C27_Witness ==
    /\ entry = "watcher"
    /\ watch.once
    /\ watch.pc = "returned"
    /\ ~watch.interrupted
    /\ watch.skipped > 0
    /\ watch.batches > 0
    /\ watch.handled = 1

\* C28: the watcher starts a workflow for a filesystem change only if the
\* changed file's name equals the configured metadata filename, the change is
\* a creation or a modification, and the stability check on that file
\* answered true.
C28_WorkflowOnlyForStableMetadata ==
    (entry = "watcher" /\ watch.pc = "workflow") =>
        /\ watch.checked
        /\ watch.stable
        /\ watch.current.origin = "event" =>
              /\ watch.current.name = watch.metadata_filename
              /\ watch.current.change_type \in {1, 2}

\* a workflow started for a modified metadata file after a deletion and a
\* change of another file were passed over
C28_Witness ==
    /\ entry = "watcher"
    /\ watch.pc = "workflow"
    /\ watch.current.origin = "event"
    /\ watch.current.change_type = 2
    /\ watch.batches = 2
    /\ watch.handled = 0
    /\ watch.skipped = 0

\* C29: the stability check answers stable iff the file exists at both samples,
\* its size is the same at both and that size is non-zero.
C29_StableIff ==
    (entry = "watcher" /\ watch.checked) =>
        (watch.stable <=>
            /\ watch.samples.exists1 /\ watch.samples.stat1
            /\ watch.samples.exists2 /\ watch.samples.stat2
            /\ watch.samples.size1 = watch.samples.size2
            /\ watch.samples.size1 # 0)

\* an empty file of unchanged size was reported unstable
C29_Witness ==
    /\ entry = "watcher"
    /\ watch.checked
    /\ ~watch.stable
    /\ watch.samples.exists1 /\ watch.samples.stat1
    /\ watch.samples.exists2 /\ watch.samples.stat2
    /\ watch.samples.size1 = 0
    /\ watch.samples.size2 = 0

\* C30: any number of worker threads blocked in wait_for_app_ready_sync all
\* return, without error, once the readiness event is set, and none before it
\* is set; a call made when the event is already set returns without blocking.
\* On finite runs: no worker thread's call raises; a returned call saw the
\* event set; once the event is set no waiter is left asleep in a select()
\* that nothing will interrupt; a call made after the set is never parked.
C30_WaitersReleased ==
    entry = "bridge" =>
        \A t \in Threads :
            /\ bridge.pc[t] # "raised"
            /\ bridge.pc[t] = "returned" => bridge.value
            /\ bridge.value => bridge.pc[t] # "asleep"
            /\ t \in bridge.called_when_set => bridge.pc[t] \in {"called", "returned"}

\* C40: EventDispatcher.trigger leaves the handler registry unchanged and
\* invokes no handler that was registered for a different event: every step
\* into, inside or out of trigger keeps callbacks as it was, and a handler is
\* only ever invoked as one of the callbacks of the event being triggered;
\* triggering an event nothing is registered for invokes nothing and returns
\* to the caller with no exception.
C40_TriggerFrame ==
    [][/\ (pc = "trigger" \/ pc' = "trigger") => callbacks' = callbacks
       /\ (log' # log /\ Len(log') > 0 /\ log'[Len(log')].op = "handler") =>
             /\ pc = "trigger"
             /\ log'[Len(log')].ev = trig.event
             /\ \E i \in 1..Len(callbacks[trig.event]) :
                   callbacks[trig.event][i] = log'[Len(log')].h
       /\ (pc = "trigger" /\ callbacks[trig.event] = <<>>) =>
             (pc' = trig.ret /\ log' = log /\ exc' = exc)]_vars

\* two handlers are registered, an event neither is registered for was
\* triggered and trigger is back with the caller: no handler ran
C40_Witness ==
    /\ entry = "dispatcher"
    /\ pc = "idle"
    /\ Registrations = 2
    /\ Count(log, {"trigger"}) = 1
    /\ callbacks[log[1].ev] = <<>>
    /\ Count(log, {"handler"}) = 0
    /\ exc = None

\* C36: an exception raised by a handler of a workflow event never aborts or
\* alters the workflow: while trigger runs the handlers of an event of the run,
\* whether they return or raise, the exception state, the result, the
\* processor and every variable of run_workflow stay as they were, and control
\* leaves trigger only after the last handler and only to the step that
\* follows the trigger in the run.
C36_HandlerFailureIgnored ==
    [][(entry = "workflow" /\ pc = "trigger") =>
          /\ exc' = exc
          /\ result' = result
          /\ callbacks' = callbacks
          /\ pmVars' = pmVars
          /\ wfVars' = wfVars
          /\ pc' \in {"trigger", trig.ret}
          /\ pc' = trig.ret => trig.idx > Len(callbacks[trig.event])]_vars

\* both manifests_ready handlers have raised and the run is still under way,
\* with no exception pending
C36_Witness ==
    /\ entry = "workflow"
    /\ pc = "trigger"
    /\ trig.event = "manifests_ready"
    /\ trig.raised = 2
    /\ trig.idx = 3
    /\ trig.ret = "wf_process"
    /\ exc = None

\* C38: after process_manifest returns or raises, the processor holds no
\* backend instance, so a later call on the same processor never calls
\* teardown or load_component on the instance of an earlier call: every such
\* call of a process_manifest call goes to an instance created in that call.
C38_NoBackendLeftBehind ==
    entry = "processor" =>
        /\ PmExited => plugin_instance = 0
        /\ \A i \in 1..Len(CallLog) :
              CallLog[i].op \in {"teardown", "load"} =>
                  \E j \in 1..(i - 1) :
                      /\ CallLog[j].op = "instantiate"
                      /\ CallLog[j].inst = CallLog[i].inst

\* C34: under fail_fast, the exception that aborts a run_workflow run which
\* cloned a remote reaches the caller only after both cleanups have run: the
\* teardown of the backend, if one was set up, and the deletion of the working
\* directory the clone was made in.
C34_CleanupBeforePropagation ==
    (/\ entry = "workflow"
     /\ pc = "done"
     /\ wf.fail_fast
     /\ exc # None
     /\ Count(log, {"clone"}) = 1) =>
        /\ Count(log, {"setup"}) > 0 => Count(log, {"teardown"}) = 1
        /\ temp_dir = "deleted"

\* C35: the workflow_completed event of a run that succeeds carries
\* workflow_succeeded = TRUE, no exception and the very counts run_workflow
\* returns; the one of a run that raises after workflow_started was triggered
\* carries workflow_succeeded = FALSE and the exception that leaves run_workflow.
C35_CompletedCarriesOutcome ==
    (entry = "workflow" /\ pc = "done" /\ wf.event_dispatcher /\ exc # "invalid_input") =>
        /\ TrigCount("workflow_completed") = 1
        /\ exc = None =>
              /\ result.returned
              /\ completed_kwargs =
                    [success_count |-> result.success_count,
                     total_count |-> result.total_count,
                     workflow_succeeded |-> TRUE, workflow_exception |-> None]
        /\ exc # None =>
              /\ TrigCount("workflow_started") = 1
              /\ ~completed_kwargs.workflow_succeeded
              /\ completed_kwargs.workflow_exception = exc

\* C35 witness: a run that loaded a component and returned (1, 1), its completed
\* event carrying the same
C35_Witness ==
    /\ entry = "workflow"
    /\ pc = "done"
    /\ exc = None
    /\ result = [returned |-> TRUE, success_count |-> 1, total_count |-> 1]
    /\ completed_kwargs.success_count = 1
    /\ completed_kwargs.workflow_succeeded

\* C39: the workflow_completed event of a run that raises carries
\* success_count = 0 and total_count = 0, whatever was loaded before the
\* exception.
C39_FailedRunReportsZeroCounts ==
    (entry = "workflow" /\ pc = "done" /\ wf.event_dispatcher /\ exc # None
       /\ exc # "invalid_input") =>
        /\ TrigCount("workflow_completed") = 1
        /\ completed_kwargs.success_count = 0
        /\ completed_kwargs.total_count = 0

\* C39 witness: a component was loaded successfully, then the run raised; the
\* completed event reports no component at all
C39_Witness ==
    /\ entry = "workflow"
    /\ pc = "done"
    /\ wf.event_dispatcher
    /\ exc # None
    /\ Count(log, {"load"}) > 0
    /\ frame.success_count > 0
    /\ TrigCount("workflow_completed") = 1
    /\ completed_kwargs.success_count = 0
    /\ completed_kwargs.total_count = 0

\* C37: without fail_fast a workflow failure is logged, _handle_metadata_file
\* returns False and the watcher carries on with the changes still to come,
\* in single-shot mode too; with fail_fast the first workflow failure leaves
\* watch_for_metadata as an exception, and nothing is handled after it.
C37_FailurePolicy ==
    [][/\ (watch.pc = "workflow" /\ watch'.failed # watch.failed) =>
             /\ watch'.failed = watch.failed + 1
             /\ watch'.handled = watch.handled
             /\ IF watch.fail_fast
                THEN watch'.pc = "raised" /\ watch'.exc = "workflow_failed"
                ELSE watch'.pc = "after_handle" /\ ~watch'.outcome /\ watch'.exc = None
       /\ (watch.pc = "after_handle" /\ ~watch.outcome) =>
             /\ watch'.pc = IF watch.current.origin = "scan" THEN "watch" ELSE "next_change"
             /\ watch'.changes = watch.changes
             /\ watch'.exc = None
       /\ watch.fail_fast => watch'.failed <= 1
       /\ watch.exc = "workflow_failed" =>
             (watch.fail_fast /\ watch.pc = "raised" /\ watch' = watch)]_vars

\* C37 witness: single-shot mode without fail_fast; the workflow failed on
\* one file, the watcher went on and left after a later file succeeded
C37_Witness ==
    /\ entry = "watcher"
    /\ ~watch.fail_fast
    /\ watch.once
    /\ watch.failed = 1
    /\ watch.handled = 1
    /\ watch.pc = "returned"
    /\ ~watch.interrupted

\* C32: resolve_component_file_path returns the file under the manifest file's
\* directory that the reference names once its leading "./" is taken off when
\* the reference starts with "./", and the file under repo_dir that the
\* reference names otherwise.
C32_ResolvedUnderBase ==
    (entry = "resolver" /\ resolver.pc = "returned") =>
        \E m \in ManifestFiles :
            LET relative == StartsWith(resolver.file_path, <<".", "/">>)
                base == IF relative THEN Parent(m.resolved) ELSE resolver.repo_dir
                ref == IF relative THEN DropFirst(resolver.file_path, 2)
                       ELSE resolver.file_path
            IN  /\ m.path = resolver.manifest_file
                /\ resolver.result =
                      [root |-> base.root, parts |-> base.parts \o PurePath(ref).parts]

\* C33: the components go to the backend one at a time and in walk order: the
\* generator is resumed only when the loop body for the component it yielded
\* is over, so when a component is yielded every proper ancestor of it was
\* yielded earlier and the loop body for it (filter, files, load_component)
\* is already complete.
C33_LoadsInWalkOrder ==
    entry = "walker" =>
        /\ Len(walk.processed) =
              IF walk.pc = "yielded" THEN Len(walk.yielded) - 1 ELSE Len(walk.yielded)
        /\ \A j \in 1..Len(walk.yielded) :
              \A d \in 1..(Len(walk.positions[j]) - 1) :
                 \E i \in 1..(j - 1) :
                    /\ walk.positions[i] = SubSeq(walk.positions[j], 1, d)
                    /\ i <= Len(walk.processed)

\* C33 witness: a component just yielded and not yet handed to the backend,
\* while its parent, which passed the filter, already was
C33_Witness ==
    /\ entry = "walker"
    /\ walk.pc = "yielded"
    /\ Len(walk.yielded) = 2
    /\ IsAncestor(walk.positions[1], walk.positions[2])
    /\ walk.processed = <<TRUE>>
    /\ ShouldProcessComponent(walk.yielded[2], walk.type_filter, walk.name_filter)

\* C31: every exception that leaves WorkflowAPI.run, CadAPI.load or
\* ManifestAPI.process is one of the four Api* error types, whichever step of
\* the run failed.
C31_OnlyApiErrorsEscape ==
    (entry = "api" /\ api.pc = "raised") => api.escaped \in ApiErrors

====
